---- MODULE Spec2Model ----
(***************************************************************************)
(* eBayPhotoBackup: the credential lifecycle (ebay_auth.py), the listing   *)
(* request with its auth retry (trading_call of ebay_all_listings_by_sku   *)
(* and of ebay_all_listings_auto_refresh) and the multi-pass crawl (main,  *)
(* get_all_items, process_window of ebay_all_listings_by_sku.py).          *)
(***************************************************************************)
EXTENDS Integers, Sequences, FiniteSets, TLC

VARIABLES
    store,      \* the token files: accessToken.txt, refresh_token.txt, access_meta.json, client_*.txt
    now,        \* time.time()
    minted,     \* number of access tokens the token endpoint has issued so far
    pc,         \* where the program is
    call,       \* the current (or last) call of trading_call: requests, refreshes, result
    ens,        \* the last call of ensure_access_token: store before and after, result
    arGlobals,  \* module globals of ebay_all_listings_auto_refresh.py
    faults,     \* failing answers the two endpoints have given so far
    hist,       \* whether a refresh has failed, and the network calls made after it
    api,        \* the listing API: the pages it serves for each request
    badUrls,    \* the image URLs whose download fails
    order,      \* the passes of main, in the order main runs them
    passIdx,    \* main: the pass that is running (an index into order)
    win,        \* main: the window that is running
    page,       \* process_window, get_all_items: page
    seen_ids,   \* main: seen_ids
    counters,   \* main: counters
    ledger,     \* the rows of image_urls.csv
    files,      \* the image files under images_by_sku
    obs,        \* what the run has done so far: downloads by URL, URLs referenced
    runNo,      \* which run of main this is (the two-run harness)
    first,      \* what the first run of main produced (the two-run harness)
    callers,    \* the concurrent callers of ensure_access_token: where each one is
    origin,     \* the token response each token file was last written from
    probe       \* a function under study: its inputs and what it returned

crawlVars ==
    <<api, badUrls, order, passIdx, win, page, seen_ids, counters, ledger, files,
      obs, runNo, first>>
sideVars == <<callers, origin, probe>>
vars ==
    <<store, now, minted, pc, call, ens, arGlobals, faults, hist, api, badUrls,
      order, passIdx, win, page, seen_ids, counters, ledger, files, obs, runNo,
      first, callers, origin, probe>>

-----------------------------------------------------------------------------
(* Bounds of the model *)

MaxTicks == 5       \* the clock runs from 0 to MaxTicks * TimeStep
MaxMint == 4        \* access tokens the token endpoint issues in one behaviour
MaxFaults == 2      \* failing answers of the endpoints in one call (Spec, SpecAR) or run
NWindows == 2       \* the month windows between START_DATE and END_DATE
NCallers == 2       \* the processes that call ensure_access_token at the same time

-----------------------------------------------------------------------------
(* ebay_auth.py: the token store *)

LEEWAY == 60
NoFile == 0         \* path.exists() is False; a token that exists is a number >= 1
NoTTL == -1         \* payload.get("expires_in") is None: json null in access_meta.json

TimeStep == LEEWAY \div 2
MaxTime == MaxTicks * TimeStep

\* expires_in values the token endpoint may send: none, one not beyond the
\* leeway, one beyond it.
TTLs == {NoTTL, LEEWAY, LEEWAY + TimeStep}

NoMeta == [present |-> FALSE, created |-> 0, ttl |-> NoTTL]

Meta(created, ttl) == [present |-> TRUE, created |-> created, ttl |-> ttl]

\* Responses of the token endpoint to a refresh_token grant.
TokenResponses ==
    [ok : {TRUE}, ttl : TTLs, rotate : BOOLEAN]
        \cup {[ok |-> FALSE, ttl |-> NoTTL, rotate |-> FALSE]}

\* the comparison of line 143 written <= : fresh at the boundary
IsAccessTokenFresh_Le(st, t) ==
    /\ st.meta.present
    /\ st.meta.ttl # NoTTL
    /\ t + LEEWAY <= st.meta.created + st.meta.ttl

\* the leeway of line 143 on the wrong side: fresh until the leeway after expiry
IsAccessTokenFresh_Late(st, t) ==
    /\ st.meta.present
    /\ st.meta.ttl # NoTTL
    /\ t < st.meta.created + st.meta.ttl + LEEWAY

\* _is_access_token_fresh that takes a token without expiry metadata to be
\* fresh
IsAccessTokenFresh_NoExpiryIsFresh(st, t) ==
    \/ ~st.meta.present
    \/ st.meta.ttl = NoTTL
    \/ t + LEEWAY < st.meta.created + st.meta.ttl

\* _is_access_token_fresh: any exception (file missing, unparseable, a null
\* expires_in added to an int) reports False.
IsAccessTokenFresh(st, t) ==
    /\ st.meta.present
    /\ st.meta.ttl # NoTTL
    /\ t + LEEWAY < st.meta.created + st.meta.ttl

\* refresh_access_token that leaves access_meta.json as it was
RefreshAccessToken_KeepsMeta(st, t, m, resp) ==
    IF st.refresh = NoFile \/ ~st.creds
    THEN [store |-> st, minted |-> m, posts |-> 0, ok |-> FALSE, token |-> NoFile]
    ELSE IF ~resp.ok
    THEN [store |-> st, minted |-> m, posts |-> 1, ok |-> FALSE, token |-> NoFile]
    ELSE [store |-> [st EXCEPT !.access = m + 1,
                               !.refresh = IF resp.rotate THEN m + 1 ELSE @],
          minted |-> m + 1, posts |-> 1, ok |-> TRUE, token |-> m + 1]

\* refresh_access_token: _read_text(REFRESH_FILE) and _basic_auth_header raise
\* before the POST; raise_for_status raises after it; then the three writes.
RefreshAccessToken(st, t, m, resp) ==
    IF st.refresh = NoFile \/ ~st.creds
    THEN [store |-> st, minted |-> m, posts |-> 0, ok |-> FALSE, token |-> NoFile]
    ELSE IF ~resp.ok
    THEN [store |-> st, minted |-> m, posts |-> 1, ok |-> FALSE, token |-> NoFile]
    ELSE [store |-> [st EXCEPT !.access = m + 1,
                               !.refresh = IF resp.rotate THEN m + 1 ELSE @,
                               !.meta = Meta(t, resp.ttl)],
          minted |-> m + 1, posts |-> 1, ok |-> TRUE, token |-> m + 1]

\* ensure_access_token falling back to the stored token, whatever its age, when
\* there is no refresh token
EnsureAccessToken_StaleFallback(st, t, m, resp) ==
    IF st.access # NoFile /\ (IsAccessTokenFresh(st, t) \/ st.refresh = NoFile)
    THEN [store |-> st, minted |-> m, posts |-> 0, outcome |-> "return",
          token |-> st.access, err |-> "none"]
    ELSE IF st.refresh # NoFile
    THEN LET r == RefreshAccessToken(st, t, m, resp) IN
         IF r.ok
         THEN [store |-> r.store, minted |-> r.minted, posts |-> r.posts,
               outcome |-> "return", token |-> r.token, err |-> "none"]
         ELSE [store |-> r.store, minted |-> r.minted, posts |-> r.posts,
               outcome |-> "raise", token |-> NoFile, err |-> "refresh"]
    ELSE [store |-> st, minted |-> m, posts |-> 0, outcome |-> "raise",
          token |-> NoFile, err |-> "no_refresh_path"]

\* ensure_access_token
EnsureAccessToken(st, t, m, resp) ==
    IF st.access # NoFile /\ IsAccessTokenFresh(st, t)
    THEN [store |-> st, minted |-> m, posts |-> 0, outcome |-> "return",
          token |-> st.access, err |-> "none"]
    ELSE IF st.refresh # NoFile
    THEN LET r == RefreshAccessToken(st, t, m, resp) IN
         IF r.ok
         THEN [store |-> r.store, minted |-> r.minted, posts |-> r.posts,
               outcome |-> "return", token |-> r.token, err |-> "none"]
         ELSE [store |-> r.store, minted |-> r.minted, posts |-> r.posts,
               outcome |-> "raise", token |-> NoFile, err |-> "refresh"]
    ELSE [store |-> st, minted |-> m, posts |-> 0, outcome |-> "raise",
          token |-> NoFile, err |-> "no_refresh_path"]

-----------------------------------------------------------------------------
(* ebay_all_listings_by_sku.py: trading_call *)

\* What the Trading endpoint may answer to one POST:
\*   ok          200, Ack Success or Warning
\*   http401     401
\*   invalidIAF  200, Ack Failure, the text holds "Invalid IAF token"
\*   expiredIAF  200, Ack Failure, an error message holds "Expired IAF token"
\*   http500     another non-2xx status
\*   ackFailure  200, Ack Failure for another reason
\*   badXml      200, a body ET.fromstring cannot parse
\*   network     requests.post raises
TradingResponses ==
    {"ok", "http401", "invalidIAF", "expiredIAF", "http500", "ackFailure",
     "badXml", "network"}

\* The responses that reject the token.
AuthRejections == {"http401", "invalidIAF", "expiredIAF"}

\* r.status_code == 401 or "Invalid IAF token" in r.text
TokenIssue(r) == r \in {"http401", "invalidIAF"}

NoStore == [access |-> NoFile, refresh |-> NoFile, meta |-> NoMeta, creds |-> FALSE]

NoCall ==
    [active |-> FALSE, pre |-> NoStore, t0 |-> 0, reqs |-> <<>>, resps |-> <<>>,
     posts |-> 0, issued |-> <<>>, ensures |-> 0, outcome |-> "none", err |-> "none"]

NoEnsure ==
    [done |-> FALSE, pre |-> NoStore, post |-> NoStore, t |-> 0, posts |-> 0,
     outcome |-> "none", token |-> NoFile, err |-> "none"]

\* the caller enters trading_call
CallTrading ==
    /\ pc = "call"
    /\ pc' = "ensure1"
    /\ call' = [NoCall EXCEPT !.active = TRUE, !.pre = store, !.t0 = now]
    /\ UNCHANGED <<store, now, minted, ens, arGlobals, faults, hist, crawlVars, sideVars>>

\* a failing answer is within the budget of failing answers
Allowed(failing) == ~failing \/ faults < MaxFaults

\* the history after a step that made n network calls, the refresh among them
\* failing or not
HistAfter(n, refreshFailed) ==
    [credError |-> hist.credError \/ refreshFailed,
     netAfter |-> IF hist.credError THEN hist.netAfter + n ELSE hist.netAfter]

\* the record of one ensure_access_token call
EnsureRecord(e) ==
    [done |-> TRUE, pre |-> store, post |-> e.store, t |-> now, posts |-> e.posts,
     outcome |-> e.outcome, token |-> e.token, err |-> e.err]

\* what one ensure_access_token call adds to the record of the trading_call
CallAfterEnsure(e) ==
    [call EXCEPT !.posts = @ + e.posts,
                 !.ensures = @ + 1,
                 !.issued = IF e.posts = 1 /\ e.outcome = "return"
                            THEN Append(@, e.token) ELSE @,
                 !.outcome = IF e.outcome = "raise" THEN "raise" ELSE @,
                 !.err = IF e.outcome = "raise" THEN e.err ELSE @]

\* line 151 (at "ensure1") and line 162 (at "ensure2"): token = ensure_access_token()
EnsureStep(at, next, K) ==
    /\ pc = at
    /\ \E k \in K :
        LET e == EnsureAccessToken(store, now, minted, k)
            failed == e.posts = 1 /\ e.outcome = "raise"
        IN
        /\ Allowed(failed)
        /\ store' = e.store
        /\ minted' = e.minted
        /\ ens' = EnsureRecord(e)
        /\ call' = CallAfterEnsure(e)
        /\ pc' = IF e.outcome = "raise" THEN "raised" ELSE next
        /\ faults' = IF failed THEN faults + 1 ELSE faults
        /\ hist' = HistAfter(e.posts, e.outcome = "raise")
    /\ UNCHANGED <<now, arGlobals, crawlVars, sideVars>>

\* how trading_call ends on the response it keeps: raise_for_status, the
\* parse, the Ack check (lines 165-175)
FinalOutcome(r) == IF r = "ok" THEN "return" ELSE "raise"

\* line 159: the first POST, which takes dt; then the test of line 161
Post1(R, D) ==
    /\ pc = "post1"
    /\ \E r \in R, dt \in D :
        /\ Allowed(r # "ok")
        /\ now + dt <= MaxTime
        /\ now' = now + dt
        /\ faults' = IF r # "ok" THEN faults + 1 ELSE faults
        /\ hist' = HistAfter(1, FALSE)
        /\ IF r # "network" /\ TokenIssue(r)
           THEN /\ pc' = "ensure2"
                /\ call' = [call EXCEPT !.reqs = Append(@, ens.token),
                                        !.resps = Append(@, r)]
           ELSE /\ pc' = IF FinalOutcome(r) = "return" THEN "returned" ELSE "raised"
                /\ call' = [call EXCEPT !.reqs = Append(@, ens.token),
                                        !.resps = Append(@, r),
                                        !.outcome = FinalOutcome(r),
                                        !.err = IF r = "ok" THEN "none" ELSE "request"]
    /\ UNCHANGED <<store, minted, ens, arGlobals, crawlVars, sideVars>>

\* line 164: the retry, with the token of line 162; no further test of line 161
Post2(R) ==
    /\ pc = "post2"
    /\ \E r \in R :
        /\ Allowed(r # "ok")
        /\ faults' = IF r # "ok" THEN faults + 1 ELSE faults
        /\ hist' = HistAfter(1, FALSE)
        /\ pc' = IF FinalOutcome(r) = "return" THEN "returned" ELSE "raised"
        /\ call' = [call EXCEPT !.reqs = Append(@, ens.token),
                                !.resps = Append(@, r),
                                !.outcome = FinalOutcome(r),
                                !.err = IF r = "ok" THEN "none" ELSE "request"]
    /\ UNCHANGED <<store, now, minted, ens, arGlobals, crawlVars, sideVars>>

TradingCallStep(R, K, D) ==
    \/ EnsureStep("ensure1", "post1", K)
    \/ Post1(R, D)
    \/ EnsureStep("ensure2", "post2", K)
    \/ Post2(R)

-----------------------------------------------------------------------------
(* The token manager and the listing request as a state machine: a caller   *)
(* that issues one trading_call after the other (ebay_oauth_manager.py,     *)
(* cmd_getuser; the page loops of ebay_all_listings_by_sku.py).             *)

\* The token files a run may find: left by exchange_code_for_tokens at time 0
\* (token 1, refresh token 1), some of them possibly absent.
InitStores ==
    [access : {NoFile, 1}, refresh : {NoFile, 1},
     meta : {NoMeta} \cup {Meta(0, ttl) : ttl \in TTLs}, creds : BOOLEAN]

NoGlobals == [ACCESS_TOKEN |-> NoFile, REFRESH_TOKEN |-> NoFile, CREDS |-> FALSE]

NoHist == [credError |-> FALSE, netAfter |-> 0]

\* no crawl is running
NoCrawl ==
    /\ api = <<>>
    /\ badUrls = {}
    /\ order = <<>>
    /\ passIdx = 0
    /\ win = 0
    /\ page = 0
    /\ seen_ids = {}
    /\ counters = [items |-> 0, images |-> 0]
    /\ ledger = <<>>
    /\ files = {}
    /\ obs = <<>>
    /\ runNo = 0
    /\ first = <<>>

\* no caller is running and no function is under study
NoSide ==
    /\ callers = <<>>
    /\ origin = <<>>
    /\ probe = <<>>

Init ==
    /\ store \in InitStores
    /\ now = 0
    /\ minted = 1
    /\ pc = "call"
    /\ call = NoCall
    /\ ens = NoEnsure
    /\ arGlobals = NoGlobals
    /\ faults = 0
    /\ hist = NoHist
    /\ NoCrawl
    /\ NoSide

\* time passes between two calls
Tick ==
    /\ pc = "call"
    /\ now + TimeStep <= MaxTime
    /\ now' = now + TimeStep
    /\ UNCHANGED <<store, minted, pc, call, ens, arGlobals, faults, hist, crawlVars, sideVars>>

\* the caller calls trading_call, as long as the token endpoint has tokens left
Caller ==
    /\ minted + 2 <= MaxMint
    /\ CallTrading

\* the caller takes the result of trading_call (or its exception) and goes on
Resume ==
    /\ pc \in {"returned", "raised"}
    /\ pc' = "call"
    /\ faults' = 0
    /\ hist' = NoHist
    /\ UNCHANGED <<store, now, minted, call, ens, arGlobals, crawlVars, sideVars>>

Next ==
    \/ Tick
    \/ Caller
    \/ TradingCallStep(TradingResponses, TokenResponses, {0, TimeStep})
    \/ Resume

Spec == Init /\ [][Next]_vars

-----------------------------------------------------------------------------
(* ebay_all_listings_auto_refresh.py: refresh_access_token, trading_call *)

\* refresh_access_token that writes the token file and leaves the global
\* ACCESS_TOKEN as it was
ARRefresh_FileOnly(g, st, m, resp) ==
    IF g.REFRESH_TOKEN = NoFile \/ ~g.CREDS
    THEN [globals |-> g, store |-> st, minted |-> m, posts |-> 0, ok |-> FALSE]
    ELSE IF ~resp.ok
    THEN [globals |-> g, store |-> st, minted |-> m, posts |-> 1, ok |-> FALSE]
    ELSE [globals |-> g,
          store |-> [st EXCEPT !.access = m + 1],
          minted |-> m + 1, posts |-> 1, ok |-> TRUE]

\* refresh_access_token: raises before the POST without REFRESH_TOKEN, CLIENT_ID
\* or CLIENT_SECRET, and after it on a non-2xx answer; then sets the global
\* ACCESS_TOKEN and writes accessToken.txt.
ARRefresh(g, st, m, resp) ==
    IF g.REFRESH_TOKEN = NoFile \/ ~g.CREDS
    THEN [globals |-> g, store |-> st, minted |-> m, posts |-> 0, ok |-> FALSE]
    ELSE IF ~resp.ok
    THEN [globals |-> g, store |-> st, minted |-> m, posts |-> 1, ok |-> FALSE]
    ELSE [globals |-> [g EXCEPT !.ACCESS_TOKEN = m + 1],
          store |-> [st EXCEPT !.access = m + 1],
          minted |-> m + 1, posts |-> 1, ok |-> TRUE]

\* the caller enters trading_call
ARCallTrading ==
    /\ pc = "ar_call"
    /\ minted + 2 <= MaxMint
    /\ pc' = "ar_post1"
    /\ call' = [NoCall EXCEPT !.active = TRUE, !.pre = store, !.t0 = now]
    /\ UNCHANGED <<store, now, minted, ens, arGlobals, faults, hist, crawlVars, sideVars>>

\* how lines 108-135 go on with the response r: "refresh" is the expired-token
\* branch of line 123
ARAfterResponse(r) ==
    IF r \in {"http401", "http500", "badXml"} THEN "raise"
    ELSE IF r = "ok" THEN "return"
    ELSE IF r = "expiredIAF" /\ arGlobals.REFRESH_TOKEN # NoFile THEN "refresh"
    ELSE "raise"

ARRecord(r) ==
    [call EXCEPT !.reqs = Append(@, arGlobals.ACCESS_TOKEN), !.resps = Append(@, r)]

AREnd(c, how) ==
    [c EXCEPT !.outcome = how, !.err = IF how = "return" THEN "none" ELSE "request"]

\* line 99 and the test of line 102; without a retry, on to line 108
ARPost1(R) ==
    /\ pc = "ar_post1"
    /\ \E r \in R :
        /\ Allowed(r # "ok")
        /\ faults' = IF r # "ok" THEN faults + 1 ELSE faults
        /\ IF r = "network"
           THEN pc' = "raised" /\ call' = AREnd(ARRecord(r), "raise")
           ELSE IF r = "http401" /\ arGlobals.REFRESH_TOKEN # NoFile
           THEN pc' = "ar_refresh1" /\ call' = ARRecord(r)
           ELSE LET how == ARAfterResponse(r) IN
                IF how = "refresh"
                THEN pc' = "ar_refresh2" /\ call' = ARRecord(r)
                ELSE /\ pc' = IF how = "return" THEN "returned" ELSE "raised"
                     /\ call' = AREnd(ARRecord(r), how)
    /\ UNCHANGED <<store, now, minted, ens, arGlobals, hist, crawlVars, sideVars>>

\* line 104 (at "ar_refresh1") and line 125 (at "ar_refresh2")
ARRefreshStep(at, next, K) ==
    /\ pc = at
    /\ \E k \in K :
        LET f == ARRefresh(arGlobals, store, minted, k) IN
        /\ Allowed(f.posts = 1 /\ ~f.ok)
        /\ faults' = IF f.posts = 1 /\ ~f.ok THEN faults + 1 ELSE faults
        /\ arGlobals' = f.globals
        /\ store' = f.store
        /\ minted' = f.minted
        /\ IF f.ok
           THEN /\ pc' = next
                /\ call' = [call EXCEPT !.posts = @ + f.posts,
                                        !.issued = Append(@, f.minted)]
           ELSE /\ pc' = "raised"
                /\ call' = [call EXCEPT !.posts = @ + f.posts,
                                        !.outcome = "raise", !.err = "refresh"]
    /\ UNCHANGED <<now, ens, hist, crawlVars, sideVars>>

\* line 105, then lines 108-135 on its response
ARPost2(R) ==
    /\ pc = "ar_post2"
    /\ \E r \in R :
        /\ Allowed(r # "ok")
        /\ faults' = IF r # "ok" THEN faults + 1 ELSE faults
        /\ IF r = "network"
           THEN pc' = "raised" /\ call' = AREnd(ARRecord(r), "raise")
           ELSE LET how == ARAfterResponse(r) IN
                IF how = "refresh"
                THEN pc' = "ar_refresh2" /\ call' = ARRecord(r)
                ELSE /\ pc' = IF how = "return" THEN "returned" ELSE "raised"
                     /\ call' = AREnd(ARRecord(r), how)
    /\ UNCHANGED <<store, now, minted, ens, arGlobals, hist, crawlVars, sideVars>>

\* lines 126-133: the POST after the expired-token refresh
ARPost3(R) ==
    /\ pc = "ar_post3"
    /\ \E r \in R :
        LET how == IF r = "ok" THEN "return" ELSE "raise" IN
        /\ Allowed(r # "ok")
        /\ faults' = IF r # "ok" THEN faults + 1 ELSE faults
        /\ pc' = IF how = "return" THEN "returned" ELSE "raised"
        /\ call' = AREnd(ARRecord(r), how)
    /\ UNCHANGED <<store, now, minted, ens, arGlobals, hist, crawlVars, sideVars>>

\* the caller takes the result and goes on
ARResume ==
    /\ pc \in {"returned", "raised"}
    /\ pc' = "ar_call"
    /\ faults' = 0
    /\ UNCHANGED <<store, now, minted, call, ens, arGlobals, hist, crawlVars, sideVars>>

\* lines 20-27: the globals are read from the files when the module is
\* loaded, and the module refuses to load without an access token
InitAR ==
    /\ store \in [access : {1}, refresh : {NoFile, 1}, meta : {NoMeta}, creds : BOOLEAN]
    /\ arGlobals = [ACCESS_TOKEN |-> store.access, REFRESH_TOKEN |-> store.refresh,
                    CREDS |-> store.creds]
    /\ now = 0
    /\ minted = 1
    /\ pc = "ar_call"
    /\ call = NoCall
    /\ ens = NoEnsure
    /\ faults = 0
    /\ hist = NoHist
    /\ NoCrawl
    /\ NoSide

NextAR ==
    \/ ARCallTrading
    \/ ARPost1(TradingResponses)
    \/ ARRefreshStep("ar_refresh1", "ar_post2", TokenResponses)
    \/ ARPost2(TradingResponses)
    \/ ARRefreshStep("ar_refresh2", "ar_post3", TokenResponses)
    \/ ARPost3(TradingResponses)
    \/ ARResume

SpecAR == InitAR /\ [][NextAR]_vars

\* Both listing programs, each run from its own start: a run of
\* ebay_all_listings_auto_refresh.py is the one that holds the globals.
AutoRefreshRun == arGlobals # NoGlobals

NextTokens ==
    \/ ~AutoRefreshRun /\ Next
    \/ AutoRefreshRun /\ NextAR

SpecTokens == (Init \/ InitAR) /\ [][NextTokens]_vars

-----------------------------------------------------------------------------
(* ebay_all_listings_by_sku.py: names, items and image files *)
\* A text is a sequence of characters; an item id and a SKU are texts.
Alnum == {"A", "B", "C", "K", "N", "O", "S", "U", "1", "2", "3"}    \* c.isalnum()
KeptMarks == {"-", "_", ".", "+"}
Whitespace == {" "}
MaxName == 200
NO_SKU == <<"N", "O", "_", "S", "K", "U">>
Jpg == <<".", "j", "p", "g">>
DigitChars == <<"1", "2", "3", "4", "5", "6", "7", "8", "9">>

RECURSIVE LStrip(_)
LStrip(s) == IF s # <<>> /\ Head(s) \in Whitespace THEN LStrip(Tail(s)) ELSE s

RECURSIVE RStrip(_)
RStrip(s) ==
    IF s # <<>> /\ s[Len(s)] \in Whitespace
    THEN RStrip(SubSeq(s, 1, Len(s) - 1))
    ELSE s

\* str.strip()
Strip(s) == RStrip(LStrip(s))

Kept(c) == c \in Alnum \/ c \in KeptMarks

sanitize(name) ==
    LET n == IF Strip(name) = <<>> THEN NO_SKU ELSE Strip(name)
        kept == SelectSeq(n, Kept)
    IN SubSeq(kept, 1, IF Len(kept) < MaxName THEN Len(kept) ELSE MaxName)

\* sku or item_id
Or(sku, item_id) == IF sku # <<>> THEN sku ELSE item_id

\* lines 277-278: the file of the i-th of n URLs of the item filed under label
Dest(label, i, n) ==
    [folder |-> label,
     fname |-> IF n = 1 THEN label \o Jpg
               ELSE label \o <<"_", DigitChars[i]>> \o Jpg]

\* an image URL is a string, the empty string an element without text
Urls == {"u1", "u2", "u3"}

NonEmpty(u) == u # ""

\* lines 199-202, 340-343: the picture URLs with text, then the gallery URL
RawUrls(item) ==
    SelectSeq(item.pics, NonEmpty) \o (IF item.gal # "" THEN <<item.gal>> ELSE <<>>)

\* lines 204-207: de-dup preserve order
RECURSIVE Uniq(_, _)
Uniq(urls, seen) ==
    IF urls = <<>> THEN <<>>
    ELSE IF Head(urls) = "" \/ Head(urls) \in seen THEN Uniq(Tail(urls), seen)
    ELSE <<Head(urls)>> \o Uniq(Tail(urls), seen \cup {Head(urls)})

iter_items(items) ==
    [i \in 1..Len(items) |->
        [item_id |-> items[i].id, sku |-> items[i].sku,
         urls |-> Uniq(RawUrls(items[i]), {})]]

\* lines 340-343: get_all_items reads the same elements and does not de-dup
ScanItems(items) ==
    [i \in 1..Len(items) |->
        [item_id |-> items[i].id, sku |-> items[i].sku, urls |-> RawUrls(items[i])]]

\* a month window is the number of its month; "ALL" is no window
ALL == [start |-> 0, end |-> 0]

Windows == [w \in 1..NWindows |-> [start |-> w, end |-> w]]

\* lines 262-269, 352-359
Rows(it, source, w) ==
    [k \in 1..Len(it.urls) |->
        [item_id |-> it.item_id, sku |-> it.sku, image_url |-> it.urls[k],
         source |-> source, window_start |-> w.start, window_end |-> w.end]]

\* download_image: the file is written when the GET answers with content
download_image(url, dest, fs, bad) ==
    IF url \in bad THEN [ok |-> FALSE, files |-> fs]
    ELSE [ok |-> TRUE,
          files |-> {f \in fs : f.dest # dest} \cup {[dest |-> dest, url |-> url]}]

Exists(dest, fs) == \E f \in fs : f.dest = dest

\* what a run has done so far
NoObs ==
    [dl |-> [u \in Urls |-> 0], refd |-> {}, failed |-> 0, abandoned |-> 0,
     pages |-> <<>>]

\* lines 276-283, 367-378: the download loop of one item, from its i-th URL
RECURSIVE Downloads(_, _, _, _, _)
Downloads(label, urls, i, acc, bad) ==
    IF i > Len(urls) THEN acc
    ELSE LET dest == Dest(label, i, Len(urls))
             d == download_image(urls[i], dest, acc.files, bad)
         IN IF Exists(dest, acc.files) THEN Downloads(label, urls, i + 1, acc, bad)
            ELSE IF d.ok
            THEN Downloads(label, urls, i + 1,
                    [acc EXCEPT !.files = d.files, !.counters.images = @ + 1,
                                !.obs.dl[urls[i]] = @ + 1], bad)
            ELSE Downloads(label, urls, i + 1,
                    [acc EXCEPT !.obs.failed = @ + 1], bad)

\* the item taken with `seen_ids = {item_id}` for `seen_ids.add(item_id)`
TakeItem_Replaces(it, acc, source, w, bad) ==
    LET taken == [acc EXCEPT !.seen = {it.item_id},
                             !.counters.items = @ + 1,
                             !.batch = @ \o Rows(it, source, w),
                             !.obs.refd = @ \cup {it.urls[k] : k \in 1..Len(it.urls)}]
    IN IF it.urls # <<>>
       THEN Downloads(sanitize(Or(it.sku, it.item_id)), it.urls, 1, taken, bad)
       ELSE taken

\* the item taken without `counters["items"] += 1`
TakeItem_Uncounted(it, acc, source, w, bad) ==
    LET taken == [acc EXCEPT !.seen = @ \cup {it.item_id},
                             !.batch = @ \o Rows(it, source, w),
                             !.obs.refd = @ \cup {it.urls[k] : k \in 1..Len(it.urls)}]
    IN IF it.urls # <<>>
       THEN Downloads(sanitize(Or(it.sku, it.item_id)), it.urls, 1, taken, bad)
       ELSE taken

\* lines 256-283, 345-383: one item that is not skipped
TakeItem(it, acc, source, w, bad) ==
    LET taken == [acc EXCEPT !.seen = @ \cup {it.item_id},
                             !.counters.items = @ + 1,
                             !.batch = @ \o Rows(it, source, w),
                             !.obs.refd = @ \cup {it.urls[k] : k \in 1..Len(it.urls)}]
    IN IF it.urls # <<>>
       THEN Downloads(sanitize(Or(it.sku, it.item_id)), it.urls, 1, taken, bad)
       ELSE taken

\* lines 251-283: the items of one page of process_window, from the k-th
RECURSIVE WindowItems(_, _, _, _, _, _)
WindowItems(its, k, acc, source, w, bad) ==
    IF k > Len(its) THEN acc
    ELSE IF its[k].item_id = <<>> THEN WindowItems(its, k + 1, acc, source, w, bad)
    ELSE IF its[k].item_id \in acc.seen /\ its[k].urls = <<>>
    THEN WindowItems(its, k + 1, acc, source, w, bad)
    ELSE WindowItems(its, k + 1, TakeItem(its[k], acc, source, w, bad), source, w, bad)

\* the scan with the skip rule of process_window: an item seen before is
\* skipped only when it carries no image URL
RECURSIVE AllItems_WindowRule(_, _, _, _)
AllItems_WindowRule(its, k, acc, bad) ==
    IF k > Len(its) THEN acc
    ELSE IF its[k].item_id = <<>> \/ (its[k].item_id \in acc.seen /\ its[k].urls = <<>>)
    THEN AllItems_WindowRule(its, k + 1, acc, bad)
    ELSE AllItems_WindowRule(its, k + 1,
            TakeItem(its[k], acc, "InitialScan", ALL, bad), bad)

\* lines 333-383: the items of one page of get_all_items, from the k-th
RECURSIVE AllItems(_, _, _, _)
AllItems(its, k, acc, bad) ==
    IF k > Len(its) THEN acc
    ELSE IF its[k].item_id = <<>> \/ its[k].item_id \in acc.seen
    THEN AllItems(its, k + 1, acc, bad)
    ELSE AllItems(its, k + 1,
            TakeItem(its[k], acc, "InitialScan", ALL, bad), bad)

\* TotalNumberOfPages as the response carries it: "none" is a response
\* without the element
Digits == [t \in {"0", "1", "2", "3"} |-> CASE t = "0" -> 0 [] t = "1" -> 1
                                              [] t = "2" -> 2 [] t = "3" -> 3]

\* total_pages_txt and total_pages_txt.isdigit()
IsDigit(txt) == txt \in DOMAIN Digits

\* the page count taken to be one more than the page when the field is
\* missing or malformed
TotalPages_OneMore(txt, p) == IF IsDigit(txt) THEN Digits[txt] ELSE p + 1

\* line 246
TotalPages(txt, p) == IF IsDigit(txt) THEN Digits[txt] ELSE p

\* lines 388-393: "yes", "no", or "error" when int() raises on a page count
RECURSIVE HasMore(_, _, _)
HasMore(tps, k, p) ==
    IF k > Len(tps) THEN "no"
    ELSE LET txt == IF tps[k] = "none" THEN "0" ELSE tps[k] IN
         IF ~IsDigit(txt) THEN "error"
         ELSE IF Digits[txt] > p THEN "yes"
         ELSE HasMore(tps, k + 1, p)

-----------------------------------------------------------------------------
(* The listing API: what it serves for each request *)
ItemA == <<"A">>
ItemB == <<"B">>
ItemC == <<"C">>
SkuS1 == <<"S", "1">>

\* item A with one picture; the same item after its picture was replaced; as
\* GetMyeBaySelling shows it; without pictures
A_u1 == [id |-> ItemA, sku |-> SkuS1, pics |-> <<"u1">>, gal |-> ""]
A_u2 == [id |-> ItemA, sku |-> SkuS1, pics |-> <<"u2">>, gal |-> ""]
A_u3 == [id |-> ItemA, sku |-> SkuS1, pics |-> <<>>, gal |-> "u3"]
A_none == [id |-> ItemA, sku |-> SkuS1, pics |-> <<>>, gal |-> ""]
\* an item without SKU whose gallery picture is its first picture
B_u1 == [id |-> ItemB, sku |-> <<>>, pics |-> <<"u1", "">>, gal |-> "u1"]
\* an item with two pictures whose SKU holds a character sanitize drops
C_u2u3 == [id |-> ItemC, sku |-> <<"S", "/", "1">>, pics |-> <<"u2", "u3">>, gal |-> ""]
\* an item without ItemID
NoId_u3 == [id |-> <<>>, sku |-> SkuS1, pics |-> <<"u3">>, gal |-> ""]

\* the pages of GetSellerList for one window
WindowScripts ==
    { <<[items |-> <<>>, tp |-> "0"]>>,
      <<[items |-> <<A_u1>>, tp |-> "1"]>>,
      <<[items |-> <<A_u2, B_u1>>, tp |-> "none"]>>,
      <<[items |-> <<A_none, NoId_u3, B_u1>>, tp |-> "2"],
        [items |-> <<C_u2u3>>, tp |-> "x"]>> }

\* the windows after the first are empty or hold item A
LaterScripts ==
    { <<[items |-> <<>>, tp |-> "0"]>>,
      <<[items |-> <<A_u1>>, tp |-> "1"]>> }

NoList == <<>>

\* the pages of GetMyeBaySelling: ActiveList, SoldList, UnsoldList,
\* DeletedFromSoldList and the page count of each
ScanScripts ==
    { <<[lists |-> <<NoList, NoList, NoList, NoList>>,
         tps |-> <<"none", "none", "none", "none">>]>>,
      <<[lists |-> <<<<A_u1>>, NoList, NoList, NoList>>,
         tps |-> <<"1", "1", "1", "1">>]>>,
      <<[lists |-> <<<<A_u3>>, <<B_u1>>, NoList, <<A_u1>>>>,
         tps |-> <<"1", "2", "x", "none">>],
        [lists |-> <<NoList, <<C_u2u3>>, NoList, NoList>>,
         tps |-> <<"1", "x", "3", "1">>]>> }

\* lines 298-329: the request of get_all_items, but for its page
ScanRequest == [name |-> "GetMyeBaySelling", start |-> ALL, mod |-> ALL]

\* lines 179-191: the request of get_seller_list_page, but for its page
get_seller_list_page(window_type, w) ==
    [name |-> "GetSellerList", start |-> w,
     mod |-> IF window_type = "ModTime" THEN w ELSE ALL]

WindowRequests ==
    {get_seller_list_page(t, Windows[w]) :
        t \in {"StartTime", "EndTime", "ModTime"}, w \in 1..NWindows}

\* the API answers the same request with the same pages
Apis ==
    {[q \in WindowRequests \cup {ScanRequest} |->
        IF q = ScanRequest THEN s ELSE f[q]] :
        s \in ScanScripts,
        f \in {g \in [WindowRequests -> WindowScripts] :
                \A q \in WindowRequests :
                    q.start # Windows[1] => g[q] \in LaterScripts}}

\* a page past the last page of a listing is empty
PageOf(script, p) ==
    IF p <= Len(script) THEN script[p]
    ELSE IF "lists" \in DOMAIN script[1]
    THEN [lists |-> <<NoList, NoList, NoList, NoList>>,
          tps |-> <<"none", "none", "none", "none">>]
    ELSE [items |-> <<>>, tp |-> "none"]

-----------------------------------------------------------------------------
(* ebay_all_listings_by_sku.py: main, get_all_items, process_window *)
\* lines 413-425
MainOrder == <<"InitialScan", "StartTime", "EndTime", "ModTime">>

Orders ==
    {o \in [1..Len(MainOrder) -> {MainOrder[i] : i \in 1..Len(MainOrder)}] :
        \A i, j \in 1..Len(MainOrder) : o[i] = o[j] => i = j}

Running == IF passIdx \in 1..Len(order) THEN order[passIdx] ELSE "none"

tokenSide == <<store, now, minted, call, ens, arGlobals, faults, hist>>

\* the state of the run as the loops of one page thread it
Acc ==
    [seen |-> seen_ids, counters |-> counters, files |-> files, batch |-> <<>>,
     obs |-> obs]

\* the record of a run with the page request that has just ended, well or
\* with an exception; the scan has no window
Logged(o, ok) ==
    [o EXCEPT !.pages = Append(@,
        [pass |-> Running, win |-> IF Running = "InitialScan" THEN 0 ELSE win,
         page |-> page, ok |-> ok])]

\* the page's effects with image_urls.csv opened for writing, not for
\* appending
Commit_Rewrites(acc) ==
    /\ seen_ids' = acc.seen
    /\ counters' = acc.counters
    /\ files' = acc.files
    /\ ledger' = acc.batch
    /\ obs' = Logged(acc.obs, TRUE)

\* the page's effects: append_rows(batch) and what the items changed
Commit(acc) ==
    /\ seen_ids' = acc.seen
    /\ counters' = acc.counters
    /\ files' = acc.files
    /\ ledger' = ledger \o acc.batch
    /\ obs' = Logged(acc.obs, TRUE)

\* main goes on with the pass p at the window w
GoTo(p, w) ==
    /\ passIdx' = p
    /\ win' = w
    /\ page' = 1
    /\ pc' = IF p > Len(order) THEN "done" ELSE "call"

\* main with its loops nested the other way: for each window, the three
\* window passes
NextWindow_WindowMajor ==
    IF passIdx < Len(order) THEN GoTo(passIdx + 1, win)
    ELSE IF win < NWindows THEN GoTo(2, win + 1)
    ELSE GoTo(Len(order) + 1, 1)

\* lines 416-425: the for loops over month_windows
NextWindow ==
    IF win < NWindows THEN GoTo(passIdx, win + 1) ELSE GoTo(passIdx + 1, 1)

\* lines 245-290: process_window after the page has arrived
ProcessWindowPage ==
    /\ pc = "returned"
    /\ Running \in {"StartTime", "EndTime", "ModTime"}
    /\ LET root == PageOf(api[get_seller_list_page(Running, Windows[win])], page)
           total_pages == TotalPages(root.tp, page)
       IN /\ Commit(WindowItems(iter_items(root.items), 1, Acc, Running,
                                Windows[win], badUrls))
          /\ IF page + 1 > total_pages
             THEN NextWindow
             ELSE /\ page' = page + 1
                  /\ pc' = "call"
                  /\ UNCHANGED <<passIdx, win>>
    /\ UNCHANGED <<tokenSide, sideVars, api, badUrls, order, runNo, first>>

\* process_window without its except clause: the exception leaves main
AbandonWindow_Fatal ==
    /\ pc = "raised"
    /\ Running \in {"StartTime", "EndTime", "ModTime"}
    /\ pc' = "aborted"
    /\ UNCHANGED <<tokenSide, sideVars, api, badUrls, order, passIdx, win, page,
                   seen_ids, counters, ledger, files, obs, runNo, first>>

\* process_window going on with the next page of the window after an exception
AbandonWindow_NextPage ==
    /\ pc = "raised"
    /\ Running \in {"StartTime", "EndTime", "ModTime"}
    /\ page' = page + 1
    /\ pc' = "call"
    /\ obs' = Logged([obs EXCEPT !.abandoned = @ + 1], FALSE)
    /\ UNCHANGED <<tokenSide, sideVars, api, badUrls, order, passIdx, win,
                   seen_ids, counters, ledger, files, runNo, first>>

\* an except clause that rolls the window back: the ledger rows the window
\* has written are removed
AbandonWindow_RollsBack ==
    /\ pc = "raised"
    /\ Running \in {"StartTime", "EndTime", "ModTime"}
    /\ NextWindow
    /\ obs' = Logged([obs EXCEPT !.abandoned = @ + 1], FALSE)
    /\ LET NotOfWindow(r) == ~(r.source = Running /\ r.window_start = Windows[win].start)
       IN ledger' = SelectSeq(ledger, NotOfWindow)
    /\ UNCHANGED <<tokenSide, sideVars, api, badUrls, order, seen_ids, counters,
                   files, runNo, first>>

\* lines 241-243: the except clause of process_window
AbandonWindow ==
    /\ pc = "raised"
    /\ Running \in {"StartTime", "EndTime", "ModTime"}
    /\ NextWindow
    /\ obs' = Logged([obs EXCEPT !.abandoned = @ + 1], FALSE)
    /\ UNCHANGED <<tokenSide, sideVars, api, badUrls, order, seen_ids, counters, ledger,
                   files, runNo, first>>

\* lines 332-403: get_all_items after the page has arrived
ProcessScanPage ==
    /\ pc = "returned"
    /\ Running = "InitialScan"
    /\ LET root == PageOf(api[ScanRequest], page)
           its == ScanItems(root.lists[1] \o root.lists[2] \o root.lists[3]
                            \o root.lists[4])
       IN /\ Commit(AllItems(its, 1, Acc, badUrls))
          /\ IF HasMore(root.tps, 1, page) = "yes"
             THEN /\ page' = page + 1
                  /\ pc' = "call"
                  /\ UNCHANGED <<passIdx, win>>
             ELSE GoTo(passIdx + 1, 1)
    /\ UNCHANGED <<tokenSide, sideVars, api, badUrls, order, runNo, first>>

\* lines 401-403: the except clause of get_all_items, trading_call raised
AbandonScan ==
    /\ pc = "raised"
    /\ Running = "InitialScan"
    /\ GoTo(passIdx + 1, 1)
    /\ obs' = Logged([obs EXCEPT !.abandoned = @ + 1], FALSE)
    /\ UNCHANGED <<tokenSide, sideVars, api, badUrls, order, seen_ids, counters, ledger,
                   files, runNo, first>>

\* the answers of the endpoints during a crawl
CrawlResponses == {"ok", "http401", "http500"}
CrawlTokenResponses ==
    {[ok |-> TRUE, ttl |-> LEEWAY + TimeStep, rotate |-> FALSE],
     [ok |-> FALSE, ttl |-> NoTTL, rotate |-> FALSE]}

\* the token store when main starts: a token that is fresh, or one that is
\* expired
CrawlStores ==
    {[access |-> 1, refresh |-> 1, meta |-> Meta(0, ttl), creds |-> TRUE] :
        ttl \in {LEEWAY, LEEWAY + TimeStep}}

\* main, lines 409-410, with the output directory empty
StartOfMain ==
    /\ passIdx = 1
    /\ win = 1
    /\ page = 1
    /\ seen_ids = {}
    /\ counters = [items |-> 0, images |-> 0]
    /\ ledger = <<>>
    /\ files = {}
    /\ obs = NoObs

CrawlStart ==
    /\ store \in CrawlStores
    /\ now = 0
    /\ minted = 1
    /\ pc = "call"
    /\ call = NoCall
    /\ ens = NoEnsure
    /\ arGlobals = NoGlobals
    /\ hist = NoHist
    /\ api \in Apis
    /\ badUrls \in {{}, {"u1"}}
    /\ order = MainOrder
    /\ StartOfMain
    /\ runNo = 1
    /\ first = <<>>
    /\ NoSide

InitCrawl ==
    /\ CrawlStart
    /\ faults = 0

NextCrawl ==
    \/ CallTrading
    \/ TradingCallStep(CrawlResponses, CrawlTokenResponses, {0})
    \/ ProcessScanPage
    \/ AbandonScan
    \/ ProcessWindowPage
    \/ AbandonWindow

SpecCrawl == InitCrawl /\ [][NextCrawl]_vars

\* a listing whose scan and whose first window have two pages each
LiveApis ==
    {a \in Apis :
        /\ Len(a[ScanRequest]) = 2
        /\ \A q \in WindowRequests :
            IF q.start = Windows[1] THEN Len(a[q]) = 2 ELSE a[q][1].items # <<>>}

InitLive ==
    /\ CrawlStart
    /\ api \in LiveApis
    /\ badUrls # {}
    /\ faults = 0

\* the crawl as the one thread of main runs it: every request and every
\* download has a timeout (lines 114, 159, 221), every sleep ends, so the step
\* that is due is taken
SpecCrawlLive == InitLive /\ [][NextCrawl]_vars /\ WF_vars(NextCrawl)

-----------------------------------------------------------------------------
(* main run twice against the same API, the second time with its passes in *)
(* another order and a new output directory *)

\* the ledger without the attribution of its rows: item, SKU and image URL
Content(rows) ==
    {[item_id |-> rows[i].item_id, sku |-> rows[i].sku,
      image_url |-> rows[i].image_url] : i \in 1..Len(rows)}

\* what main has produced when it prints DONE (lines 427-429)
Produced ==
    [content |-> Content(ledger), unique |-> Cardinality(seen_ids),
     clean |-> obs.abandoned = 0]

SecondRun ==
    /\ pc = "done"
    /\ runNo = 1
    /\ runNo' = 2
    /\ first' = Produced
    /\ \E o \in Orders : order' = o
    /\ pc' = "call"
    /\ passIdx' = 1
    /\ win' = 1
    /\ page' = 1
    /\ seen_ids' = {}
    /\ counters' = [items |-> 0, images |-> 0]
    /\ ledger' = <<>>
    /\ files' = {}
    /\ obs' = NoObs
    /\ UNCHANGED <<tokenSide, sideVars, api, badUrls>>

\* the token is fresh, every download succeeds and the endpoints have one
\* failing answer left
InitOrder ==
    /\ CrawlStart
    /\ IsAccessTokenFresh(store, now)
    /\ badUrls = {}
    /\ faults = MaxFaults - 1

NextOrder ==
    \/ NextCrawl
    \/ SecondRun

SpecOrder == InitOrder /\ [][NextOrder]_vars

-----------------------------------------------------------------------------
(* main run twice against the same API and the same output directory: the *)
(* second process starts with a new seen_ids and new counters (lines *)
(* 409-410) and finds image_urls.csv and images_by_sku as the first left them *)

\* what the first run reports and has written when it prints DONE
Reported ==
    [rows |-> ledger, counters |-> counters, clean |-> obs.abandoned = 0]

Rerun ==
    /\ pc = "done"
    /\ runNo = 1
    /\ runNo' = 2
    /\ first' = Reported
    /\ pc' = "call"
    /\ passIdx' = 1
    /\ win' = 1
    /\ page' = 1
    /\ seen_ids' = {}
    /\ counters' = [items |-> 0, images |-> 0]
    /\ obs' = NoObs
    /\ UNCHANGED <<tokenSide, sideVars, api, badUrls, order, ledger, files>>

\* the token is fresh and the endpoints have one failing answer left
InitRerun ==
    /\ CrawlStart
    /\ IsAccessTokenFresh(store, now)
    /\ faults = MaxFaults - 1

NextRerun ==
    \/ NextCrawl
    \/ Rerun

SpecRerun == InitRerun /\ [][NextRerun]_vars

-----------------------------------------------------------------------------
(* ebay_auth.py: ensure_access_token called by several processes at once, *)
(* refresh_access_token one file write at a time *)

Callers == 1..NCallers

\* a caller that has not called yet
NoCaller == [pc |-> "idle", resp |-> NoFile, ttl |-> NoTTL, rotate |-> FALSE, token |-> NoFile]

\* everything but the token files, the tokens issued and the callers
concRest == <<now, pc, call, ens, arGlobals, faults, hist, crawlVars, probe>>

\* lines 149-152 and 113-124: the token is returned, or the refresh request
\* is sent, or there is no way to a token
Enter(p) ==
    /\ callers[p].pc = "idle"
    /\ callers' =
        [callers EXCEPT ![p] =
            IF store.access # NoFile /\ IsAccessTokenFresh(store, now)
            THEN [@ EXCEPT !.pc = "returned", !.token = store.access]
            ELSE IF store.refresh # NoFile /\ store.creds
            THEN [@ EXCEPT !.pc = "post"]
            ELSE [@ EXCEPT !.pc = "raised"]]
    /\ UNCHANGED <<store, minted, origin, concRest>>

\* lines 124-126: the token endpoint answers the refresh request
Answer(p, K) ==
    /\ callers[p].pc = "post"
    /\ \E k \in K :
        IF k.ok
        THEN /\ minted' = minted + 1
             /\ callers' = [callers EXCEPT ![p] =
                    [@ EXCEPT !.pc = "write_access", !.resp = minted + 1,
                              !.ttl = k.ttl, !.rotate = k.rotate]]
        ELSE /\ callers' = [callers EXCEPT ![p].pc = "raised"]
             /\ UNCHANGED minted
    /\ UNCHANGED <<store, origin, concRest>>

\* line 127
WriteAccess(p) ==
    /\ callers[p].pc = "write_access"
    /\ store' = [store EXCEPT !.access = callers[p].resp]
    /\ origin' = [origin EXCEPT !.access = callers[p].resp]
    /\ callers' = [callers EXCEPT ![p].pc = "write_refresh"]
    /\ UNCHANGED <<minted, concRest>>

\* lines 129-130
WriteRefresh(p) ==
    /\ callers[p].pc = "write_refresh"
    /\ store' = [store EXCEPT !.refresh = IF callers[p].rotate THEN callers[p].resp ELSE @]
    /\ callers' = [callers EXCEPT ![p].pc = "write_meta"]
    /\ UNCHANGED <<minted, origin, concRest>>

\* lines 131-136 and 154
WriteMeta(p) ==
    /\ callers[p].pc = "write_meta"
    /\ store' = [store EXCEPT !.meta = Meta(now, callers[p].ttl)]
    /\ origin' = [origin EXCEPT !.meta = callers[p].resp]
    /\ callers' = [callers EXCEPT ![p] =
            [@ EXCEPT !.pc = "returned", !.token = callers[p].resp]]
    /\ UNCHANGED <<minted, concRest>>

\* the process is killed in the middle of refresh_access_token
Interrupt(p) ==
    /\ callers[p].pc \in {"post", "write_access", "write_refresh", "write_meta"}
    /\ callers' = [callers EXCEPT ![p].pc = "killed"]
    /\ UNCHANGED <<store, minted, origin, concRest>>

\* the token files as exchange_code_for_tokens or an earlier refresh left them
ConcStores ==
    [access : {1}, refresh : {NoFile, 1},
     meta : {Meta(0, ttl) : ttl \in TTLs}, creds : BOOLEAN]

InitConc ==
    /\ store \in ConcStores
    /\ now = 0
    /\ minted = 1
    /\ pc = "call"
    /\ call = NoCall
    /\ ens = NoEnsure
    /\ arGlobals = NoGlobals
    /\ faults = 0
    /\ hist = NoHist
    /\ NoCrawl
    /\ callers = [p \in Callers |-> NoCaller]
    /\ origin = [access |-> 1, meta |-> 1]
    /\ probe = <<>>

NextConc ==
    \E p \in Callers :
        \/ Enter(p)
        \/ Answer(p, TokenResponses)
        \/ WriteAccess(p)
        \/ WriteRefresh(p)
        \/ WriteMeta(p)
        \/ Interrupt(p)

SpecConc == InitConc /\ [][NextConc]_vars

-----------------------------------------------------------------------------
(* Functions under study: Init draws the inputs, an action applies the *)
(* function *)

\* nothing else runs while a function is under study
Quiet ==
    /\ store = NoStore
    /\ now = 0
    /\ minted = 1
    /\ pc = "call"
    /\ call = NoCall
    /\ ens = NoEnsure
    /\ arGlobals = NoGlobals
    /\ faults = 0
    /\ hist = NoHist
    /\ NoCrawl
    /\ callers = <<>>
    /\ origin = <<>>

probeRest ==
    <<store, now, minted, pc, call, ens, arGlobals, faults, hist, crawlVars,
      callers, origin>>

\* refresh_access_token, then ensure_access_token at once (ebay_auth.py)
InitRefresh ==
    /\ Quiet
    /\ probe \in [st : InitStores, t : {0, TimeStep}, resp : TokenResponses,
                  again : TokenResponses, step : {0}, r : {<<>>}, e : {<<>>}]

\* lines 111-136
ApplyRefresh ==
    /\ probe.step = 0
    /\ probe' = [probe EXCEPT !.step = 1,
                    !.r = RefreshAccessToken(probe.st, probe.t, 1, probe.resp)]
    /\ UNCHANGED probeRest

\* lines 147-155, on the files the refresh left
ApplyEnsure ==
    /\ probe.step = 1
    /\ probe' = [probe EXCEPT !.step = 2,
                    !.e = EnsureAccessToken(probe.r.store, probe.t, probe.r.minted,
                                            probe.again)]
    /\ UNCHANGED probeRest

NextRefresh ==
    \/ ApplyRefresh
    \/ ApplyEnsure

SpecRefresh == InitRefresh /\ [][NextRefresh]_vars

-----------------------------------------------------------------------------
(* old_version/ebay_auth.py: get_access_token *)

OldCushion == 120
OldDefaultTTL == 7200

\* the answers of the identity endpoint to the validation GET
ProbeAnswers == {"200", "401", "exception"}

\* _expired: a missing or malformed token_meta.json counts as expired
Expired(st, t) ==
    \/ ~st.meta.present
    \/ st.meta.ttl = NoTTL
    \/ t - st.meta.created >= st.meta.ttl - OldCushion

\* _validate_access, given the answer of the endpoint
ValidateAccess(answer) == answer = "200"

\* refresh_access: the refresh token is kept; expires_in defaults to 7200
refresh_access(st, t, m, resp) ==
    IF st.refresh = NoFile \/ ~st.creds
    THEN [store |-> st, minted |-> m, posts |-> 0, ok |-> FALSE]
    ELSE IF ~resp.ok
    THEN [store |-> st, minted |-> m, posts |-> 1, ok |-> FALSE]
    ELSE [store |-> [st EXCEPT !.access = m + 1,
                               !.meta = Meta(t, IF resp.ttl = NoTTL THEN OldDefaultTTL
                                                ELSE resp.ttl)],
          minted |-> m + 1, posts |-> 1, ok |-> TRUE]

\* get_access_token that trusts token_meta.json: a token that is not expired
\* by the metadata is returned without a validation GET
get_access_token_TrustsMeta(st, t, m, answers, resp) ==
    LET token == st.access
        stored == token # NoFile
        f == refresh_access(st, t, m, resp)
    IN IF stored /\ ~Expired(st, t)
       THEN [outcome |-> "return", token |-> token, gets |-> 0, posts |-> 0,
             store |-> st]
       ELSE IF stored /\ ValidateAccess(answers[1])
       THEN [outcome |-> "return", token |-> token, gets |-> 1, posts |-> 0,
             store |-> st]
       ELSE [outcome |-> IF f.ok THEN "return" ELSE "raise",
             token |-> IF f.ok THEN f.store.access ELSE NoFile,
             gets |-> IF stored THEN 1 ELSE 0, posts |-> f.posts,
             store |-> f.store]

\* get_access_token: answers are the answers the validation GETs get, in
\* the order the GETs are made
get_access_token(st, t, m, answers, resp) ==
    LET token == st.access
        byMeta == token # NoFile /\ ~Expired(st, t)
        gets1 == IF byMeta THEN 1 ELSE 0
        stored == token # NoFile
        f == refresh_access(st, t, m, resp)
    IN IF byMeta /\ ValidateAccess(answers[1])
       THEN [outcome |-> "return", token |-> token, gets |-> 1, posts |-> 0,
             store |-> st]
       ELSE IF stored /\ ValidateAccess(answers[gets1 + 1])
       THEN [outcome |-> "return", token |-> token, gets |-> gets1 + 1, posts |-> 0,
             store |-> st]
       ELSE [outcome |-> IF f.ok THEN "return" ELSE "raise",
             token |-> IF f.ok THEN f.store.access ELSE NoFile,
             gets |-> gets1 + (IF stored THEN 1 ELSE 0), posts |-> f.posts,
             store |-> f.store]

OldTTLs == {NoTTL, OldCushion + TimeStep, OldCushion + 2 * TimeStep}

OldStores ==
    [access : {NoFile, 1}, refresh : {NoFile, 1},
     meta : {NoMeta} \cup {Meta(0, ttl) : ttl \in OldTTLs}, creds : BOOLEAN]

InitOld ==
    /\ Quiet
    /\ probe \in [st : OldStores, t : {0, TimeStep, 2 * TimeStep},
                  answers : [1..2 -> ProbeAnswers], resp : TokenResponses,
                  step : {0}, g : {<<>>}]

\* lines 125-141
ApplyGetAccessToken ==
    /\ probe.step = 0
    /\ probe' = [probe EXCEPT !.step = 1,
                    !.g = get_access_token(probe.st, probe.t, 1, probe.answers,
                                           probe.resp)]
    /\ UNCHANGED probeRest

NextOld == ApplyGetAccessToken

SpecOld == InitOld /\ [][NextOld]_vars

-----------------------------------------------------------------------------
(* ebay_all_listings_by_sku.py: month_windows *)

\* a date is year, month, day; a time is a date and the second of its day
LastSecond == 86399

LeapYear(y) == y % 4 = 0 /\ (y % 100 # 0 \/ y % 400 = 0)

DaysIn(y, m) ==
    IF m = 2 THEN (IF LeapYear(y) THEN 29 ELSE 28)
    ELSE IF m \in {4, 6, 9, 11} THEN 30
    ELSE 31

\* datetime.strptime(s, "%Y-%m-%d"): midnight of the date
Midnight(date) == [y |-> date.y, m |-> date.m, d |-> date.d, s |-> 0]

\* a <= b on datetimes
Leq(a, b) ==
    \/ a.y < b.y
    \/ a.y = b.y /\ a.m < b.m
    \/ a.y = b.y /\ a.m = b.m /\ a.d < b.d
    \/ a.y = b.y /\ a.m = b.m /\ a.d = b.d /\ a.s <= b.s

\* cur + relativedelta(months=1)
PlusOneMonth(t) ==
    IF t.m = 12 THEN [t EXCEPT !.y = @ + 1, !.m = 1]
    ELSE [t EXCEPT !.m = @ + 1, !.d = IF t.d > DaysIn(t.y, t.m + 1)
                                      THEN DaysIn(t.y, t.m + 1) ELSE @]

\* nxt - timedelta(seconds=1)
MinusOneSecond(t) ==
    IF t.s > 0 THEN [t EXCEPT !.s = @ - 1]
    ELSE IF t.d > 1 THEN [t EXCEPT !.d = @ - 1, !.s = LastSecond]
    ELSE IF t.m > 1
    THEN [t EXCEPT !.m = @ - 1, !.d = DaysIn(t.y, t.m - 1), !.s = LastSecond]
    ELSE [y |-> t.y - 1, m |-> 12, d |-> 31, s |-> LastSecond]

\* lines 137-143: the while loop
RECURSIVE MonthWindowsFrom(_, _)
MonthWindowsFrom(cur, end) ==
    IF ~Leq(cur, end) THEN <<>>
    ELSE LET nxt == PlusOneMonth(cur) IN
         <<[from |-> cur, to |-> MinusOneSecond(nxt)]>> \o MonthWindowsFrom(nxt, end)

\* month_windows whose first window begins at start itself
month_windows_FromStart(start_date, end_date) ==
    MonthWindowsFrom(Midnight(start_date), Midnight(end_date))

\* lines 132-143
month_windows(start_date, end_date) ==
    MonthWindowsFrom([y |-> start_date.y, m |-> start_date.m, d |-> 1, s |-> 0],
                     Midnight(end_date))

Years == {2023, 2024}

\* the dates START_DATE and END_DATE are drawn from
Dates ==
    {date \in [y : Years, m : 1..12, d : {1, 10, 15, 28, 29, 30, 31}] :
        date.d <= DaysIn(date.y, date.m)}

InitWindows ==
    /\ Quiet
    /\ probe \in [start : Dates, end : Dates, step : {0}, w : {<<>>}]

ApplyMonthWindows ==
    /\ probe.step = 0
    /\ probe' = [probe EXCEPT !.step = 1, !.w = month_windows(probe.start, probe.end)]
    /\ UNCHANGED probeRest

NextWindows == ApplyMonthWindows

SpecWindows == InitWindows /\ [][NextWindows]_vars

-----------------------------------------------------------------------------
(* ebay_all_listings_by_sku.py: download_image attempt by attempt *)

DOWNLOAD_RETRIES == 3
SleepTenths == 12       \* time.sleep(1.2 * attempt), in tenths of a second

\* what a GET of an image can come to: a body, r.ok with an empty body, a
\* status that is not ok, an exception
GetAnswers == {"content", "empty", "status", "exception"}

\* the delay that never grows
Delay_Flat(attempt) == SleepTenths

\* line 227
Delay(attempt) == SleepTenths * attempt

\* the loop that takes any response with a success status, its body empty or
\* not
RECURSIVE Attempts_AnyOk(_, _, _)
Attempts_AnyOk(answers, attempt, sleeps) ==
    IF attempt > DOWNLOAD_RETRIES
    THEN [ok |-> FALSE, gets |-> attempt - 1, sleeps |-> sleeps]
    ELSE IF answers[attempt] \in {"content", "empty"}
    THEN [ok |-> TRUE, gets |-> attempt, sleeps |-> sleeps]
    ELSE Attempts_AnyOk(answers, attempt + 1, Append(sleeps, Delay(attempt)))

\* lines 219-228: the loop from the given attempt on; answers[k] is what the
\* k-th GET comes to
RECURSIVE Attempts(_, _, _)
Attempts(answers, attempt, sleeps) ==
    IF attempt > DOWNLOAD_RETRIES
    THEN [ok |-> FALSE, gets |-> attempt - 1, sleeps |-> sleeps]
    ELSE IF answers[attempt] = "content"
    THEN [ok |-> TRUE, gets |-> attempt, sleeps |-> sleeps]
    ELSE Attempts(answers, attempt + 1, Append(sleeps, Delay(attempt)))

\* download_image with its GETs: the file is written by the attempt that
\* succeeds
DownloadImage(url, dest, fs, answers) ==
    LET a == Attempts(answers, 1, <<>>) IN
    [ok |-> a.ok, gets |-> a.gets, sleeps |-> a.sleeps, skipped |-> FALSE,
     files |-> IF a.ok
               THEN {f \in fs : f.dest # dest} \cup {[dest |-> dest, url |-> url]}
               ELSE fs]

\* the fetch that downloads whether the file exists or not
Fetch_Always(url, dest, fs, answers) == DownloadImage(url, dest, fs, answers)

\* lines 279-282: one URL of an item, its file tested first
Fetch(url, dest, fs, answers) ==
    IF Exists(dest, fs)
    THEN [ok |-> FALSE, gets |-> 0, sleeps |-> <<>>, skipped |-> TRUE, files |-> fs]
    ELSE DownloadImage(url, dest, fs, answers)

\* the file the fetches are about, and another one
TheDest == Dest(sanitize(SkuS1), 1, 1)
OtherDest == Dest(sanitize(ItemB), 1, 1)

InitDownload ==
    /\ Quiet
    /\ probe \in [url : Urls,
                  fs : {{}, {[dest |-> OtherDest, url |-> "u1"]},
                        {[dest |-> TheDest, url |-> "u1"]}},
                  a1 : [1..DOWNLOAD_RETRIES -> GetAnswers],
                  a2 : [1..DOWNLOAD_RETRIES -> GetAnswers],
                  step : {0}, f1 : {<<>>}, f2 : {<<>>}]

ApplyFetch ==
    /\ probe.step = 0
    /\ probe' = [probe EXCEPT !.step = 1,
                    !.f1 = Fetch(probe.url, TheDest, probe.fs, probe.a1)]
    /\ UNCHANGED probeRest

\* the same URL and file again, in this process or in a later one: the files
\* are all that is left of the first fetch
ApplyFetchAgain ==
    /\ probe.step = 1
    /\ probe' = [probe EXCEPT !.step = 2,
                    !.f2 = Fetch(probe.url, TheDest, probe.f1.files, probe.a2)]
    /\ UNCHANGED probeRest

NextDownload ==
    \/ ApplyFetch
    \/ ApplyFetchAgain

SpecDownload == InitDownload /\ [][NextDownload]_vars

-----------------------------------------------------------------------------
(* ebay_all_listings_by_sku.py: the item loop of process_window, item by item *)

MaxStream == 3

\* item A after a second picture was added to it
A_u1u2 == [id |-> ItemA, sku |-> SkuS1, pics |-> <<"u1", "u2">>, gal |-> ""]

\* the items the API can show
ItemKinds == {A_u1, A_u2, A_u3, A_none, A_u1u2, B_u1, C_u2u3, NoId_u3}

\* the items a run meets on the pages of its windows, in order
Streams ==
    UNION {[1..n -> ItemKinds] : n \in 1..MaxStream}

\* main, lines 409-410, before the first window
NoAcc ==
    [seen |-> {}, counters |-> [items |-> 0, images |-> 0], files |-> {},
     batch |-> <<>>, obs |-> NoObs]

InitItems ==
    /\ Quiet
    /\ probe \in [stream : Streams, bad : {{}, {"u1"}}, k : {0},
                  before : {NoAcc}, acc : {NoAcc}]

\* lines 251-283 for the next item of the stream
ApplyItem ==
    /\ probe.k < Len(probe.stream)
    /\ probe' = [probe EXCEPT
            !.k = @ + 1,
            !.before = probe.acc,
            !.acc = WindowItems(<<iter_items(probe.stream)[probe.k + 1]>>, 1,
                                probe.acc, "StartTime", Windows[1], probe.bad)]
    /\ UNCHANGED probeRest

NextItems == ApplyItem

SpecItems == InitItems /\ [][NextItems]_vars

-----------------------------------------------------------------------------
(* ebay_all_listings_by_sku.py: the page loop of process_window for one *)
(* window, request by request *)

MaxPages == 3

\* the text of TotalNumberOfPages in a response: a number, no element, or a
\* text that is no number
PageCounts == DOMAIN Digits \cup {"none", "x"}

\* what the response to the request for page p declares
Declared(p) == IF p \in DOMAIN probe.tps THEN probe.tps[p] ELSE "none"

\* the loop that stops one page early: `if page >= total_pages: break`
Break_Early(p, total_pages) == p + 1 >= total_pages

\* the loop that stops one page late: `if page > total_pages + 1: break`
Break_Late(p, total_pages) == p > total_pages

\* lines 287-290: page += 1, then `if page > total_pages: break`; p is the
\* page just processed
Break(p, total_pages) == p + 1 > total_pages

\* line 237; the request for page failAt raises, 0 for no failure
InitPages ==
    /\ Quiet
    /\ probe \in [tps : [1..MaxPages -> PageCounts], failAt : 0..MaxPages,
                  page : {1}, reqs : {<<>>}, processed : {<<>>},
                  pc : {"request"}]

\* lines 239-243: get_seller_list_page(page, ...) and its except clause
RequestPage ==
    /\ probe.pc = "request"
    /\ probe' = [probe EXCEPT
            !.reqs = Append(@, probe.page),
            !.pc = IF probe.page = probe.failAt THEN "returned" ELSE "process"]
    /\ UNCHANGED probeRest

\* lines 245-290: the page count, the items, the next page or the break
ProcessPage ==
    /\ probe.pc = "process"
    /\ LET total_pages == TotalPages(Declared(probe.page), probe.page) IN
       probe' = [probe EXCEPT
            !.processed = Append(@, probe.page),
            !.page = @ + 1,
            !.pc = IF Break(probe.page, total_pages) THEN "returned"
                   ELSE "request"]
    /\ UNCHANGED probeRest

NextPages ==
    \/ RequestPage
    \/ ProcessPage

SpecPages == InitPages /\ [][NextPages]_vars

\* The loop is sequential code: a step that can be taken is taken.
SpecPagesLive == InitPages /\ [][NextPages]_vars /\ WF_vars(NextPages)

-----------------------------------------------------------------------------
(* Claims about the token manager and the listing request *)

\* the stored token is provably fresh: now + 60 < created_at + expires_in
ProvablyFresh(st, t) ==
    /\ st.access # NoFile
    /\ st.meta.present
    /\ st.meta.ttl >= 0
    /\ t + 60 < st.meta.created + st.meta.ttl

\* C4: a listing request rejected for authentication once and accepted on the
\* retry makes trading_call issue exactly 2 requests and exactly 1 refresh call
\* (stated for a call that starts with a stored token, so that no refresh
\* precedes the first request).
C4_OneRejectionOneRefresh ==
    (/\ pc = "returned"
     /\ ProvablyFresh(call.pre, call.t0)
     /\ Len(call.resps) >= 1
     /\ call.resps[1] \in AuthRejections)
        => (Len(call.reqs) = 2 /\ call.posts = 1)

\* C5: one call of trading_call issues at most 2 requests and at most 1 token
\* refresh; a second auth failure ends the call.
C5_AtMostOneRetry ==
    Len(call.reqs) <= 2 /\ call.posts <= 1

\* C6: after a request was rejected as unauthorized, the ensure_access_token of
\* the retry refreshes, and the retry carries the refreshed token, whatever the
\* expiry metadata says.
C6_RejectionForcesRefresh ==
    (call.active /\ call.ensures = 2 /\ ens.outcome = "return")
        => (ens.posts = 1 /\ ens.token # call.reqs[1])

\* C7: with a stored token past its expiry (created_at + expires_in < now) and
\* a refresh token on disk, ensure_access_token makes exactly one refresh call
\* (none only when it raises before the POST), and the token it returns is the
\* one that refresh returned, which is the one in accessToken.txt.
C7_ExpiredTokenIsRefreshed ==
    (/\ ens.done
     /\ ens.pre.access # NoFile
     /\ ens.pre.meta.present
     /\ ens.pre.meta.ttl >= 0
     /\ ens.pre.meta.created + ens.pre.meta.ttl < ens.t
     /\ ens.pre.refresh # NoFile)
        => /\ ens.posts <= 1
           /\ ens.pre.creds => ens.posts = 1
           /\ ens.outcome = "return" =>
                /\ ens.posts = 1
                /\ ens.token = minted
                /\ ens.token # ens.pre.access
                /\ ens.post.access = ens.token

C7_Witness ==
    /\ ens.done
    /\ ens.pre.access # NoFile
    /\ ens.pre.meta.present
    /\ ens.pre.meta.ttl >= 0
    /\ ens.pre.meta.created + ens.pre.meta.ttl < ens.t
    /\ ens.pre.refresh # NoFile
    /\ ens.outcome = "return"

\* C8: ensure_access_token returns the stored token as it is, with no network
\* call and no change to the store, exactly when now + 60 < created_at +
\* expires_in; at now + 60 = created_at + expires_in it takes the refresh path.
C8_FreshExactlyBeyondLeeway ==
    ens.done =>
        /\ ProvablyFresh(ens.pre, ens.t)
             <=> (/\ ens.outcome = "return"
                  /\ ens.posts = 0
                  /\ ens.token = ens.pre.access)
        /\ ProvablyFresh(ens.pre, ens.t) => ens.post = ens.pre
        /\ (/\ ens.pre.meta.present
            /\ ens.pre.meta.ttl >= 0
            /\ ens.t + 60 = ens.pre.meta.created + ens.pre.meta.ttl
            /\ ens.pre.refresh # NoFile
            /\ ens.pre.creds) => ens.posts = 1

C8_Witness ==
    /\ ens.done
    /\ ens.pre.access # NoFile
    /\ ens.pre.meta.present
    /\ ens.pre.meta.ttl >= 0
    /\ ens.t + 60 = ens.pre.meta.created + ens.pre.meta.ttl
    /\ ens.posts = 1
    /\ ens.outcome = "return"

\* C10: ensure_access_token fails, with no network call and no file changed,
\* when the stored token is missing or not fresh and refresh_token.txt does
\* not exist; otherwise it returns a token or raises from the refresh.
C10_NoRefreshPathFails ==
    ens.done =>
        IF ~ProvablyFresh(ens.pre, ens.t) /\ ens.pre.refresh = NoFile
        THEN /\ ens.outcome = "raise"
             /\ ens.err = "no_refresh_path"
             /\ ens.posts = 0
             /\ ens.post = ens.pre
        ELSE \/ ens.outcome = "return" /\ ens.token # NoFile
             \/ ens.outcome = "raise" /\ ens.err = "refresh"

C10_Witness ==
    /\ ens.done
    /\ ens.pre.access # NoFile
    /\ ~ProvablyFresh(ens.pre, ens.t)
    /\ ens.pre.refresh = NoFile
    /\ ens.outcome = "raise"

-----------------------------------------------------------------------------
(* Claims about the crawl *)

\* two rows of the ledger name the same item and the same image URL
SameImage(r1, r2) == r1.item_id = r2.item_id /\ r1.image_url = r2.image_url

\* C1: across one whole run of main, every pass and every window, the ledger
\* never holds two rows with the same item id and the same image URL: a row
\* of a StartTime window is not written again by a later ModTime window.
C1_NoDuplicateLedgerRows ==
    \A i, j \in 1..Len(ledger) :
        (i < j /\ ledger[i].source = "StartTime" /\ ledger[j].source = "ModTime")
            => ~SameImage(ledger[i], ledger[j])

\* C2: for a fixed set of API responses the final unique-item count and the
\* content of the ledger are the same whatever the order of the passes: a run
\* with the passes reordered produces what the run in main's order produced.
C2_PassOrderIrrelevant ==
    (runNo = 2 /\ pc = "done" /\ first.clean /\ obs.abandoned = 0)
        => /\ Content(ledger) = first.content
           /\ Cardinality(seen_ids) = first.unique

\* C3: the images directory is empty when main starts; when every download
\* succeeds, at the end of the run every image URL that a processed item
\* referenced has been downloaded, and not more than once.
C3_EveryUrlDownloadedOnce ==
    (pc = "done" /\ badUrls = {} /\ obs.failed = 0 /\ obs.abandoned = 0)
        => \A u \in obs.refd : obs.dl[u] = 1

\* C9: a failed refresh is fatal: once ensure_access_token has raised, the
\* run makes no further listing request and no further refresh call.
C9_RefreshFailureIsFatal == hist.credError => hist.netAfter = 0

-----------------------------------------------------------------------------
(* Claims about concurrent callers and the writes of a refresh *)

\* the callers whose refresh request is in flight
InFlight == {p \in DOMAIN callers : callers[p].pc = "post"}

\* C11: refresh is single-flight: when two callers call ensure_access_token
\* on a stale token at the same time, at most one refresh request is in
\* flight at any time.
C11_SingleFlight == Cardinality(InFlight) <= 1

\* C12: the stored token is only replaced as a whole: in every state of the
\* token store, also between the file writes of refresh_access_token and
\* after a refresh that was interrupted, the access token and the expiry
\* metadata come from the same token response.
C12_TokenReplacedAsAWhole == origin.access = origin.meta

-----------------------------------------------------------------------------
(* Claims about functions *)

\* C13: after a successful refresh_access_token the store holds the new
\* access token and the new expiry metadata, the refresh token is the rotated
\* one when the response carries one and the old one otherwise, and an
\* ensure_access_token that follows at once returns the new token without a
\* further refresh when expires_in exceeds the leeway.
C13_RefreshPersistsAndIsFresh ==
    (probe.step >= 1 /\ probe.r.ok)
        => /\ probe.r.store.access = probe.r.token
           /\ probe.r.token # probe.st.access
           /\ probe.r.store.meta = Meta(probe.t, probe.resp.ttl)
           /\ probe.resp.rotate => probe.r.store.refresh \notin {probe.st.refresh, NoFile}
           /\ ~probe.resp.rotate => probe.r.store.refresh = probe.st.refresh
           /\ (probe.step = 2 /\ probe.resp.ttl > LEEWAY)
                => /\ probe.e.outcome = "return"
                   /\ probe.e.token = probe.r.token
                   /\ probe.e.posts = 0

\* a refresh with a rotated refresh token succeeded and the ensure that
\* followed returned its token
C13_Witness ==
    /\ probe.step = 2
    /\ probe.r.ok
    /\ probe.resp.rotate
    /\ probe.resp.ttl > LEEWAY
    /\ probe.e.outcome = "return"
    /\ probe.e.token = probe.r.token

\* a validation GET of the stored token was made and was not answered 200
Rejected ==
    \E i \in 1..probe.g.gets : ~ValidateAccess(probe.answers[i])

\* C14: when the validation probe of the stored token gets a non-2xx answer
\* or fails, get_access_token refreshes before it returns a token, also when
\* the stored expiry says the token has not expired; the rejected token is
\* never returned.
C14_RejectedTokenIsRefreshed ==
    (probe.step = 1 /\ Rejected /\ probe.g.outcome = "return")
        => /\ probe.g.posts = 1
           /\ probe.g.token # probe.st.access

\* C15: get_access_token never returns the stored token without refreshing
\* first when the token's expiry has passed or cannot be proven fresh
\* (metadata missing or malformed).
C15_StaleTokenIsRefreshed ==
    (probe.step = 1 /\ Expired(probe.st, probe.t) /\ probe.g.outcome = "return")
        => /\ probe.g.posts = 1
           /\ probe.g.token # probe.st.access

\* the number of a calendar month
MonthNo(t) == t.y * 12 + t.m

\* the second after t
PlusOneSecond(t) ==
    IF t.s < LastSecond THEN [t EXCEPT !.s = @ + 1]
    ELSE IF t.d < DaysIn(t.y, t.m) THEN [t EXCEPT !.d = @ + 1, !.s = 0]
    ELSE IF t.m < 12 THEN [t EXCEPT !.m = @ + 1, !.d = 1, !.s = 0]
    ELSE [y |-> t.y + 1, m |-> 1, d |-> 1, s |-> 0]

\* C16: for start <= end, month_windows yields one window per calendar month
\* from start's month to end's month, in increasing order; the first window
\* begins on day 1 of start's month, every window has from <= to, each window
\* begins right after the previous one ends, and the windows cover
\* [start, end].
C16_OneWindowPerMonth ==
    (probe.step = 1 /\ Leq(Midnight(probe.start), Midnight(probe.end)))
        => LET w == probe.w IN
           /\ Len(w) = MonthNo(probe.end) - MonthNo(probe.start) + 1
           /\ w[1].from = [y |-> probe.start.y, m |-> probe.start.m, d |-> 1, s |-> 0]
           /\ \A i \in 1..Len(w) :
                /\ MonthNo(w[i].from) = MonthNo(probe.start) + i - 1
                /\ MonthNo(w[i].to) = MonthNo(w[i].from)
                /\ Leq(w[i].from, w[i].to)
                /\ i < Len(w) => w[i + 1].from = PlusOneSecond(w[i].to)
           /\ Leq(w[1].from, Midnight(probe.start))
           /\ Leq(Midnight(probe.end), w[Len(w)].to)

\* month_windows("2024-01-15", "2024-03-10"): start is not on a month
\* boundary, three windows, the second one ends on February 29
C16_Witness ==
    /\ probe.step = 1
    /\ probe.start = [y |-> 2024, m |-> 1, d |-> 15]
    /\ probe.end = [y |-> 2024, m |-> 3, d |-> 10]
    /\ Len(probe.w) = 3
    /\ probe.w[2].to.d = 29

\* C17: the last window of month_windows is clipped at endDate: its upper
\* bound is endDate, not the end of endDate's month.
C17_LastWindowClipped ==
    (probe.step = 1 /\ Leq(Midnight(probe.start), Midnight(probe.end)))
        => LET last == probe.w[Len(probe.w)].to IN
           /\ last.y = probe.end.y
           /\ last.m = probe.end.m
           /\ last.d = probe.end.d

\* C18: for startDate > endDate, also when both lie in the same calendar
\* month, month_windows yields an empty sequence.
C18_ReversedRangeIsEmpty ==
    (probe.step = 1 /\ ~Leq(Midnight(probe.start), Midnight(probe.end)))
        => probe.w = <<>>

AllFail == \A k \in 1..DOWNLOAD_RETRIES : probe.a1[k] # "content"

\* C20: a URL whose every attempt fails is tried exactly DOWNLOAD_RETRIES
\* times and then reported as failed; the delay after attempt k is k times
\* the base delay and greater than the delay after attempt k - 1; a success
\* on attempt k ends the loop with no further attempt.
C20_RetryBudget ==
    (probe.step >= 1 /\ ~probe.f1.skipped)
        => LET f == probe.f1 IN
           /\ AllFail => /\ ~f.ok
                         /\ f.gets = DOWNLOAD_RETRIES
                         /\ Len(f.sleeps) = DOWNLOAD_RETRIES
           /\ \A k \in 1..Len(f.sleeps) :
                /\ f.sleeps[k] = k * SleepTenths
                /\ k > 1 => f.sleeps[k] > f.sleeps[k - 1]
           /\ \A k \in 1..DOWNLOAD_RETRIES :
                (probe.a1[k] = "content" /\ \A j \in 1..(k - 1) : probe.a1[j] # "content")
                    => f.ok /\ f.gets = k /\ Len(f.sleeps) = k - 1

\* three failed attempts of three kinds, and the failure reported
C20_Witness ==
    /\ probe.step = 1
    /\ ~probe.f1.skipped
    /\ probe.a1 = <<"exception", "status", "empty">>
    /\ ~probe.f1.ok
    /\ probe.f1.gets = DOWNLOAD_RETRIES

\* C21: a download response is accepted only if it has a success status and
\* a body that is not empty: download_image writes the destination file and
\* returns True exactly when some attempt of its budget gets such a response,
\* the file it writes is the body of that response, and a download that
\* fails leaves the files as they were, with no destination file.
C21_OnlyContentIsAccepted ==
    (probe.step >= 1 /\ ~probe.f1.skipped)
        => LET f == probe.f1 IN
           /\ f.ok <=> \E k \in 1..DOWNLOAD_RETRIES : probe.a1[k] = "content"
           /\ f.ok => /\ probe.a1[f.gets] = "content"
                      /\ [dest |-> TheDest, url |-> probe.url] \in f.files
                      /\ \A g \in f.files : g.dest = TheDest => g.url = probe.url
           /\ ~f.ok => /\ f.files = probe.fs
                       /\ ~Exists(TheDest, f.files)

\* an empty body, then an error status, then a body: the third attempt wrote
\* the file, which was not there before
C21_Witness ==
    /\ probe.step = 1
    /\ probe.a1 = <<"empty", "status", "content">>
    /\ ~Exists(TheDest, probe.fs)
    /\ probe.f1.ok
    /\ probe.f1.gets = DOWNLOAD_RETRIES
    /\ Exists(TheDest, probe.f1.files)

-----------------------------------------------------------------------------
(* Claims about the crawl, its passes, windows and pages *)

FailedPages ==
    {i \in 1..Len(obs.pages) :
        ~obs.pages[i].ok /\ obs.pages[i].pass # "InitialScan"}

\* C23: a request that fails on page p of a window abandons that window only:
\* no further page of that window is requested, and when the window is not
\* the last of its pass, the next request is page 1 of the next window of the
\* same pass.
C23_FailureAbandonsTheWindowOnly ==
    \A i \in FailedPages :
        LET f == obs.pages[i] IN
        /\ \A j \in (i + 1)..Len(obs.pages) :
            ~(obs.pages[j].pass = f.pass /\ obs.pages[j].win = f.win)
        /\ i = Len(obs.pages) => ~(Running = f.pass /\ win = f.win)
        /\ f.win < NWindows =>
            IF i < Len(obs.pages)
            THEN /\ obs.pages[i + 1].pass = f.pass
                 /\ obs.pages[i + 1].win = f.win + 1
                 /\ obs.pages[i + 1].page = 1
            ELSE /\ Running = f.pass
                 /\ win = f.win + 1
                 /\ page = 1

\* page 2 of the first StartTime window failed, and page 1 of the second
\* window was fetched next
C23_Witness ==
    \E i \in FailedPages :
        /\ obs.pages[i] = [pass |-> "StartTime", win |-> 1, page |-> 2, ok |-> FALSE]
        /\ i < Len(obs.pages)
        /\ obs.pages[i + 1] = [pass |-> "StartTime", win |-> 2, page |-> 1, ok |-> TRUE]

\* C24: seen_ids grows monotonically across the whole run of main, the scan
\* and the three passes, failed windows included: no step removes an id, and
\* the empty id is never in it.
C24_SeenSetOnlyGrows ==
    [][seen_ids \subseteq seen_ids' /\ <<>> \notin seen_ids']_vars

\* two ids are in seen_ids after a window was abandoned and after a page with
\* an item without id and its following page were processed
C24_Witness ==
    /\ Cardinality(seen_ids) >= 2
    /\ obs.abandoned > 0
    /\ \E i \in 1..Len(obs.pages) :
        obs.pages[i] = [pass |-> "StartTime", win |-> 1, page |-> 2, ok |-> TRUE]

\* the rows of the ledger after the first n
After(rows, n) == SubSeq(rows, n + 1, Len(rows))

\* C25: the ledger is append-only: every step of a run, and the start of a
\* second run in the same output directory, leaves the rows already written
\* unchanged and in place, so the ledger of any earlier point is a prefix of
\* the ledger of any later point.
C25_LedgerIsAppendOnly ==
    [][/\ Len(ledger) <= Len(ledger')
       /\ SubSeq(ledger', 1, Len(ledger)) = ledger]_vars

\* the second run has appended rows after the rows of the first
C25_Witness ==
    /\ runNo = 2
    /\ first.rows # <<>>
    /\ Len(ledger) > Len(first.rows)
    /\ SubSeq(ledger, 1, Len(first.rows)) = first.rows

\* the place of a pass in main
PassNo(p) == CHOOSE i \in 1..Len(MainOrder) : MainOrder[i] = p

\* page request a comes before page request b in the order of main: by pass,
\* then by window, then by page
Earlier(a, b) ==
    \/ PassNo(a.pass) < PassNo(b.pass)
    \/ PassNo(a.pass) = PassNo(b.pass) /\ a.win < b.win
    \/ PassNo(a.pass) = PassNo(b.pass) /\ a.win = b.win /\ a.page < b.page

\* the page requests so far follow the order of main, and a run that has ended
\* has made the scan and every window of every pass
InMainOrder ==
    /\ \A i, j \in 1..Len(obs.pages) :
        i < j => Earlier(obs.pages[i], obs.pages[j])
    /\ pc = "done" =>
        /\ \E i \in 1..Len(obs.pages) : obs.pages[i].pass = "InitialScan"
        /\ \A t \in {"StartTime", "EndTime", "ModTime"}, w \in 1..NWindows :
            \E i \in 1..Len(obs.pages) :
                /\ obs.pages[i].pass = t
                /\ obs.pages[i].win = w
                /\ obs.pages[i].page = 1

\* the rows a step appends name the pass and the window that is running
RowsAttributed ==
    \A k \in (Len(ledger) + 1)..Len(ledger') :
        LET w == IF Running = "InitialScan" THEN ALL ELSE Windows[win] IN
        /\ ledger'[k].source = Running
        /\ ledger'[k].window_start = w.start
        /\ ledger'[k].window_end = w.end

\* C26: the passes run in a fixed sequence, the initial scan, then StartTime,
\* then EndTime, then ModTime; each pass goes through all the windows in
\* chronological order before the next pass makes a request; every ledger row
\* carries the pass kind and the window bounds of the pass and window that
\* wrote it.
C26_PassesInFixedSequence == [][InMainOrder' /\ RowsAttributed]_vars

\* the run has ended with rows of the scan and of each of the three passes,
\* one of them of the second window
C26_Witness ==
    /\ pc = "done"
    /\ \A t \in {"InitialScan", "StartTime", "EndTime", "ModTime"} :
        \E k \in 1..Len(ledger) : ledger[k].source = t
    /\ \E k \in 1..Len(ledger) : ledger[k].window_start = Windows[2].start

\* C27: dedup determinism: main run twice against the same API responses,
\* seen_ids empty at the start of each run, appends the same ledger rows and
\* reports the same counts in both runs.
C27_RerunIsIdentical ==
    (runNo = 2 /\ pc = "done" /\ first.clean /\ obs.abandoned = 0)
        => /\ After(ledger, Len(first.rows)) = first.rows
           /\ counters = first.counters

-----------------------------------------------------------------------------
(* Claims about the items of a page *)

\* the item process_window has just met, as iter_items yields it
Met == iter_items(probe.stream)[probe.k]

\* the image URLs the rows written so far hold for the item
Known(item_id, rows) ==
    {rows[i].image_url : i \in {j \in 1..Len(rows) : rows[j].item_id = item_id}}

UrlSet(urls) == {urls[i] : i \in 1..Len(urls)}

\* the item is one the rules skip: without id, or seen before and bringing no
\* image URL that is new
Skipped(it, b) ==
    \/ it.item_id = <<>>
    \/ it.item_id \in b.seen /\ it.urls = <<>>
    \/ it.item_id \in b.seen /\ UrlSet(it.urls) \subseteq Known(it.item_id, b.batch)

\* the item was taken: inserted, counted, one row and one download target for
\* each of its distinct image URLs
Taken(it, b, a) ==
    LET label == sanitize(Or(it.sku, it.item_id)) IN
    /\ a.seen = b.seen \cup {it.item_id}
    /\ a.counters.items = b.counters.items + 1
    /\ Len(a.batch) = Len(b.batch) + Cardinality(UrlSet(RawUrls(probe.stream[probe.k])))
    /\ SubSeq(a.batch, 1, Len(b.batch)) = b.batch
    /\ \A u \in UrlSet(RawUrls(probe.stream[probe.k])) :
        \E i \in (Len(b.batch) + 1)..Len(a.batch) :
            a.batch[i].item_id = it.item_id /\ a.batch[i].image_url = u
    /\ \A i \in 1..Len(it.urls) :
        \/ Exists(Dest(label, i, Len(it.urls)), a.files)
        \/ it.urls[i] \in probe.bad

\* C28: the skip rules of process_window, item by item: an item with an
\* empty id changes nothing; an item already in seen_ids that carries no image
\* URL, or none that is new, is skipped entirely; any other item is inserted
\* into seen_ids, counted once, and gets one ledger row and one download
\* target per distinct image URL.
C28_SkipRules ==
    probe.k >= 1 =>
        IF Skipped(Met, probe.before)
        THEN probe.acc = probe.before
        ELSE Taken(Met, probe.before, probe.acc)

\* the rows and the image files that a step adds
NewRows == {k \in 1..Len(ledger') : k > Len(ledger)}
NewFiles == files' \ files

\* C29: in every pass, the initial scan included, the image URLs of an item
\* are deduplicated, so one processing of one item writes no two ledger rows
\* and no two image files for the same URL: a gallery URL that is also a
\* picture URL appears once.
C29_UrlsOfAnItemAreDistinct ==
    [][/\ \A i, j \in NewRows :
            (i < j /\ ledger'[i].item_id = ledger'[j].item_id)
                => ledger'[i].image_url # ledger'[j].image_url
       /\ \A f, g \in NewFiles :
            (f.dest.folder = g.dest.folder /\ f.url = g.url) => f = g]_vars

\* the file of the k-th image URL of an item as process_window names it
DestOf(it, k) == Dest(sanitize(Or(it.sku, it.item_id)), k, Len(it.urls))

\* C30: the destination path of an image is a function of (sku or id,
\* ordinal within the item) alone: the k-th URL of an item has the same path
\* every time the item is processed, however many URLs the item carries that
\* time.
C30_PathDependsOnNameAndOrdinalOnly ==
    \A j \in 1..probe.k :
        LET a == iter_items(probe.stream)[j]
            b == iter_items(probe.stream)[probe.k]
        IN (a.item_id # <<>> /\ a.item_id = b.item_id /\ a.sku = b.sku)
            => \A k \in 1..Len(a.urls) :
                k <= Len(b.urls) => DestOf(a, k) = DestOf(b, k)

-----------------------------------------------------------------------------
(* Claims about the pages of a window and of the scan *)

\* the page the API served for a finished page request of a window pass
PageServed(e) ==
    PageOf(api[get_seller_list_page(e.pass, Windows[e.win])], e.page)

\* the page requests of window passes that were answered without a usable
\* TotalNumberOfPages
WithoutPageCount ==
    {i \in 1..Len(obs.pages) :
        /\ obs.pages[i].ok
        /\ obs.pages[i].pass # "InitialScan"
        /\ ~IsDigit(PageServed(obs.pages[i]).tp)}

\* C31: when a page response lacks the total-pages field or carries one that
\* is not a number, process_window takes the current page to be the last:
\* the items of that page are processed and no further page of the window is
\* requested.
C31_NoPageCountMeansLastPage ==
    \A i \in WithoutPageCount :
        LET e == obs.pages[i] IN
        /\ \A k \in 1..Len(PageServed(e).items) :
            PageServed(e).items[k].id # <<>>
                => PageServed(e).items[k].id \in seen_ids
        /\ \A j \in (i + 1)..Len(obs.pages) :
            ~(obs.pages[j].pass = e.pass /\ obs.pages[j].win = e.win)
        /\ i = Len(obs.pages) => ~(Running = e.pass /\ win = e.win)

\* page 2 of the first StartTime window came with a page count that is not a
\* number, its item was taken, and the second window was fetched next; a page
\* without the field was processed too
C31_Witness ==
    /\ \E i \in WithoutPageCount :
        /\ obs.pages[i] = [pass |-> "StartTime", win |-> 1, page |-> 2, ok |-> TRUE]
        /\ PageServed(obs.pages[i]).tp = "x"
        /\ ItemC \in seen_ids
        /\ i < Len(obs.pages)
        /\ obs.pages[i + 1].win = 2
    /\ \E i \in WithoutPageCount :
        /\ PageServed(obs.pages[i]).tp = "none"
        /\ PageServed(obs.pages[i]).items # <<>>

\* every response of the window declares the same page count
Constant(n) == \A p \in DOMAIN probe.tps : IsDigit(probe.tps[p]) /\ Digits[probe.tps[p]] = n

\* the pages 1, 2, ..., n
UpTo(n) == [k \in 1..n |-> k]

\* C32: in a window without request failure whose responses all declare
\* totalPages = N >= 1, process_window requests the pages 1, 2, ..., N in
\* this order, each once, processes page k before it requests page k + 1,
\* and requests no page beyond N; page 1 is requested in every window, the
\* empty one included.
C32_PagesOneToN ==
    /\ probe.reqs # <<>> \/ probe.pc = "request"
    /\ probe.pc = "returned" => probe.reqs[1] = 1
    /\ \A n \in 1..MaxPages :
        (Constant(n) /\ probe.failAt = 0) =>
            /\ probe.reqs = UpTo(Len(probe.reqs))
            /\ probe.processed = UpTo(Len(probe.processed))
            /\ Len(probe.reqs) <= n
            /\ Len(probe.reqs) - Len(probe.processed) =
                    IF probe.pc = "process" THEN 1 ELSE 0
            /\ probe.pc = "returned" => probe.reqs = UpTo(n)

\* a window of three pages was fetched page by page
C32_Witness ==
    /\ Constant(MaxPages)
    /\ probe.failAt = 0
    /\ probe.pc = "returned"
    /\ probe.reqs = UpTo(MaxPages)
    /\ probe.processed = UpTo(MaxPages)

\* the filter pairs a GetSellerList request carries: the request has the
\* elements StartTimeFrom/StartTimeTo and ModTimeFrom/ModTimeTo, and no
\* element for the end time
SentFilters(q) ==
    (IF q.start # ALL THEN {"StartTime"} ELSE {})
        \cup (IF q.mod # ALL THEN {"ModTime"} ELSE {})

\* C33: every page request of a pass is filtered by the kind of the pass and
\* the current window: a StartTime pass sends only the StartTime pair, an
\* EndTime pass only the EndTime pair, a ModTime pass only the ModTime pair,
\* so the three passes send three different filters for the same window.
C33_RequestFilteredByPassKind ==
    (Running \in {"StartTime", "EndTime", "ModTime"} /\ pc \in {"post1", "post2"})
        => /\ SentFilters(get_seller_list_page(Running, Windows[win])) = {Running}
           /\ \A t \in {"StartTime", "EndTime", "ModTime"} \ {Running} :
                get_seller_list_page(t, Windows[win])
                    # get_seller_list_page(Running, Windows[win])

-----------------------------------------------------------------------------
(* Claims about the token a listing request carries *)

\* the step sends a listing request
Sends == Len(call'.reqs) = Len(call.reqs) + 1

\* a refresh has succeeded in the run: the token endpoint has issued a token
Refreshed == minted > 1

\* C34: a token is superseded on every successful refresh: once a refresh has
\* succeeded, every listing request sent afterwards (the retry of the current
\* call and every later call) carries the newest token, which is the token in
\* the token file, and the global ACCESS_TOKEN of the auto-refresh program
\* equals the token in the file.
C34_RequestsCarryNewestToken ==
    [][/\ (Sends /\ Refreshed)
            => /\ call'.reqs[Len(call'.reqs)] = minted
               /\ store.access = minted
       /\ AutoRefreshRun' => arGlobals'.ACCESS_TOKEN = store'.access]_vars

\* a call whose first request carried a token that was then superseded, and
\* whose retry has been sent; in either program
C34_Witness ==
    /\ Len(call.reqs) = 2
    /\ call.reqs[1] < call.reqs[2]
    /\ call.reqs[2] = minted
    /\ minted = MaxMint - 1

-----------------------------------------------------------------------------
(* Claims about seen_ids, the counters and the outputs across pages *)

\* the items of the page that has arrived and is about to be processed
ArrivedItems ==
    IF Running = "InitialScan"
    THEN LET root == PageOf(api[ScanRequest], page) IN
         root.lists[1] \o root.lists[2] \o root.lists[3] \o root.lists[4]
    ELSE PageOf(api[get_seller_list_page(Running, Windows[win])], page).items

\* the item ids of that page, the empty one left out
ArrivedIds ==
    {ArrivedItems[k].id : k \in 1..Len(ArrivedItems)} \ {<<>>}

\* the step is process_window or get_all_items processing a page
PageProcessed == pc = "returned" /\ pc' # "returned"

\* C35: after a successfully fetched page has been processed, every non-empty
\* item id of the page is in seen_ids; counters["items"] is never below
\* len(seen_ids); and the counter only grows, while a page is processed, by
\* no more than the items with an id the page holds and by no less than the
\* ids that are new in seen_ids (in the scan by exactly those), seen_ids
\* losing none.
C35_SeenIdsAndItemCounter ==
    [][/\ PageProcessed => ArrivedIds \subseteq seen_ids'
       /\ counters'.items >= Cardinality(seen_ids')
       /\ seen_ids \subseteq seen_ids'
       /\ counters'.items # counters.items
            => LET delta == counters'.items - counters.items
                   new == Cardinality(seen_ids' \ seen_ids)
               IN /\ PageProcessed
                  /\ delta >= 1
                  /\ delta >= new
                  /\ delta <= Cardinality({k \in 1..Len(ArrivedItems) :
                                                ArrivedItems[k].id # <<>>})
                  /\ Running = "InitialScan" => delta = new
                  /\ seen_ids' \ seen_ids \subseteq ArrivedIds
                  /\ seen_ids' \cap ArrivedIds # {}]_vars

\* items were counted more often than there are ids: an item came again with
\* image URLs and was counted again, its id being in seen_ids already
C35_Witness ==
    /\ counters.items > Cardinality(seen_ids)
    /\ Cardinality(seen_ids) >= 2
    /\ \E i \in 1..Len(obs.pages) : obs.pages[i].ok /\ obs.pages[i].pass = "InitialScan"

\* the step is the except clause of process_window
WindowFails == pc = "raised" /\ Running \in {"StartTime", "EndTime", "ModTime"}

\* C36: a window failure rolls nothing back. The step in which the request
\* for page p of a window fails leaves seen_ids, the counters, the ledger rows
\* and the image files as the pages before it (and the earlier windows and
\* passes) left them, and the failed page adds nothing: no step but the
\* processing of a page that has arrived changes any of them.
C36_WindowFailureKeepsOutputs ==
    [][/\ WindowFails
            => /\ UNCHANGED <<seen_ids, counters, ledger, files>>
               /\ obs'.dl = obs.dl
               /\ obs'.pages[Len(obs'.pages)] =
                    [pass |-> Running, win |-> win, page |-> page, ok |-> FALSE]
       /\ ~PageProcessed
            => /\ UNCHANGED <<seen_ids, counters, ledger, files>>
               /\ obs'.dl = obs.dl]_vars

\* page 2 of a window failed after page 1 of the same window had written
\* ledger rows and an image file, which are still there
C36_Witness ==
    \E i \in 1..(Len(obs.pages) - 1) :
        /\ obs.pages[i].ok /\ obs.pages[i].page = 1
        /\ obs.pages[i].pass = "StartTime"
        /\ ~obs.pages[i + 1].ok /\ obs.pages[i + 1].page = 2
        /\ obs.pages[i + 1].pass = obs.pages[i].pass
        /\ obs.pages[i + 1].win = obs.pages[i].win
        /\ \E k \in 1..Len(ledger) :
            /\ ledger[k].source = obs.pages[i].pass
            /\ ledger[k].window_start = Windows[obs.pages[i].win].start
            /\ ledger[k].item_id \in seen_ids
        /\ files # {}
        /\ counters.items >= 1

-----------------------------------------------------------------------------
(* Claims about one call of get_access_token of old_version/ebay_auth.py *)

\* the validation GETs of the call that were answered with 200
ProbesPassed == {i \in 1..probe.g.gets : ValidateAccess(probe.answers[i])}

\* the token is stored, not expired by token_meta.json, and the first
\* validation GET succeeds
HappyPath ==
    /\ probe.st.access # NoFile
    /\ ~Expired(probe.st, probe.t)
    /\ ValidateAccess(probe.answers[1])

-----------------------------------------------------------------------------
(* Claims about a token store without expiry metadata *)

\* access_meta.json is missing or unparseable, or holds no expiry duration
NoExpiry(st) == ~st.meta.present \/ st.meta.ttl = NoTTL

\* the step is a call of ensure_access_token
Ensures == call'.ensures = call.ensures + 1

\* C39: _is_access_token_fresh answers, without raising, that the token is
\* not fresh when the expiry metadata is missing, unparseable or without
\* expires_in; so every ensure_access_token call made in that state, one for
\* each listing request, goes to the token endpoint when the refresh token
\* and the credentials are there, and never returns the stored token; this
\* repeats for as long as the metadata stays in that state.
C39_NoExpiryMeansRefreshEachTime ==
    [][/\ NoExpiry(store) => IsAccessTokenFresh(store, now) = FALSE
       /\ (Ensures /\ NoExpiry(store))
            => /\ (store.refresh # NoFile /\ store.creds) => ens'.posts = 1
               /\ ens'.outcome = "return"
                    => /\ ens'.posts = 1
                       /\ ens'.token = minted'
                       /\ minted' = minted + 1
                       /\ ens'.token # store.access
               /\ ens'.posts = 0 => ens'.outcome = "raise"
       /\ Sends => Len(call'.reqs) <= call.ensures]_vars

\* two refreshes in a row, each leaving the metadata without expiry duration:
\* the call that found the token of the first refresh refreshed again
C39_Witness ==
    /\ ens.done
    /\ NoExpiry(ens.pre)
    /\ ens.pre.access = 2
    /\ ens.posts = 1
    /\ ens.outcome = "return"
    /\ ens.token = 3
    /\ NoExpiry(store)
    /\ Len(call.reqs) = 1

-----------------------------------------------------------------------------
(* Claims about the termination of the page loop *)

\* no response of the window declares more than n pages
Bounded(n) ==
    \A p \in DOMAIN probe.tps : IsDigit(probe.tps[p]) => Digits[probe.tps[p]] <= n

\* every response processed so far declared more pages than the page it
\* answered
Rising ==
    \A k \in 1..Len(probe.processed) :
        /\ IsDigit(Declared(probe.processed[k]))
        /\ Digits[Declared(probe.processed[k])] > probe.processed[k]

\* C37: process_window returns whenever the page counts the responses declare
\* are bounded by some N >= 1, after at most N page requests. The page count
\* is read again from each response: the loop goes on after page p exactly
\* when the response for page p declares more than p pages, so it does not
\* return for as long as every response declares more pages than the page
\* just fetched.
C37_BoundedPageCountsTerminate ==
    /\ [](\A n \in 1..MaxPages : Bounded(n) => Len(probe.reqs) <= n)
    /\ []((Rising /\ probe.failAt \notin 1..Len(probe.reqs))
            => probe.pc # "returned")
    /\ []((probe.pc = "returned" /\ probe.failAt \notin 1..Len(probe.reqs))
            => ~Rising)
    /\ <>(probe.pc = "returned")

\* the first response declared 2 pages and the second 3: the loop has fetched
\* a third page, one more than the first response declared
C37_Witness ==
    /\ probe.tps[1] = "2"
    /\ probe.tps[2] = "3"
    /\ probe.reqs = <<1, 2, 3>>
    /\ probe.pc = "returned"
    /\ Bounded(MaxPages) /\ ~Bounded(MaxPages - 1)

-----------------------------------------------------------------------------
(* Claims about the initial scan *)

\* the step is get_all_items going on after a page has arrived
ScanPageProcessed == pc = "returned" /\ Running = "InitialScan"

\* the step is the except clause of get_all_items after a failed request
ScanFails == pc = "raised" /\ Running = "InitialScan"

\* the page counts of the four lists of the page that has arrived
ArrivedCounts == PageOf(api[ScanRequest], page).tps

\* one of the four lists declares more pages than the page just fetched
DeclaresMore ==
    \E k \in 1..Len(ArrivedCounts) :
        IsDigit(ArrivedCounts[k]) /\ Digits[ArrivedCounts[k]] > page

\* every page count of the page is a number, or absent
WellFormed ==
    \A k \in 1..Len(ArrivedCounts) :
        IsDigit(ArrivedCounts[k]) \/ ArrivedCounts[k] = "none"

\* the scan goes on with the next page
NextScanPage ==
    /\ pc' = "call"
    /\ page' = page + 1
    /\ passIdx' = passIdx

\* the scan is over and main goes on with the pass after it
ScanOver ==
    /\ pc' = "call"
    /\ passIdx' = passIdx + 1
    /\ win' = 1
    /\ page' = 1

\* the ledger rows the step appends
Appended == SubSeq(ledger', Len(ledger) + 1, Len(ledger'))

\* the first item of the arrived page with the id
FirstWith(id) ==
    ScanItems(ArrivedItems)[CHOOSE k \in 1..Len(ArrivedItems) :
        /\ ArrivedItems[k].id = id
        /\ \A j \in 1..(k - 1) : ArrivedItems[j].id # id]

\* C40: get_all_items skips every item whose id is empty or already in
\* seen_ids, with or without image URLs, so an item id gets ledger rows from
\* at most one item of the scan; after a page whose page counts are readable
\* it requests the next page exactly when one of the four lists declares more
\* pages than the page just fetched, and never otherwise; and an error on a
\* page ends the scan only: main goes on with the next pass and the seen_ids
\* gathered so far.
C40_ScanSkipsPagesAndErrors ==
    [][/\ ScanPageProcessed
            => /\ ledger' = ledger \o Appended
               /\ \A i \in 1..Len(Appended) :
                    /\ Appended[i].source = "InitialScan"
                    /\ Appended[i].item_id \in ArrivedIds \ seen_ids
               /\ \A id \in ArrivedIds \ seen_ids :
                    LET Of(r) == r.item_id = id IN
                    SelectSeq(Appended, Of) = Rows(FirstWith(id), "InitialScan", ALL)
               /\ seen_ids' = seen_ids \cup ArrivedIds
               /\ NextScanPage \/ ScanOver
               /\ NextScanPage => DeclaresMore
               /\ WellFormed => (NextScanPage <=> DeclaresMore)
       /\ ScanFails
            => /\ ScanOver
               /\ UNCHANGED <<seen_ids, counters, ledger, files>>
       /\ (Running = "InitialScan" /\ Running' # "InitialScan")
            => /\ Running' = order[passIdx + 1]
               /\ pc' = "call"
               /\ seen_ids \subseteq seen_ids']_vars

\* page 1 of the scan held item A twice, with different image URLs, and the
\* second one was skipped; the request for page 2 failed, and the StartTime
\* pass runs with the ids of page 1
C40_Witness ==
    /\ Len(obs.pages) >= 2
    /\ obs.pages[1] = [pass |-> "InitialScan", win |-> 0, page |-> 1, ok |-> TRUE]
    /\ obs.pages[2] = [pass |-> "InitialScan", win |-> 0, page |-> 2, ok |-> FALSE]
    /\ Running = "StartTime"
    /\ seen_ids = {ItemA, ItemB}
    /\ \E k \in 1..Len(ledger) :
        ledger[k].item_id = ItemA /\ ledger[k].image_url = "u3"
    /\ \A k \in 1..Len(ledger) :
        ~(ledger[k].item_id = ItemA /\ ledger[k].image_url = "u1")

====
